---- MODULE Spec2Model ----
(***************************************************************************)
(* pi-code-index: the in-memory symbol index (createCodeIndex and its      *)
(* tiered search), the build orchestrator with its content-hash cache      *)
(* (buildIndex) and the extension's session_start / reindex handlers.      *)
(*                                                                         *)
(* Strings are sequences of UTF-16 code units (naturals), so that          *)
(* toLowerCase, startsWith, includes and the default Array.prototype.sort  *)
(* order are computed as JavaScript computes them.  An optional value      *)
(* (a property that may be undefined) is a sequence of length 0 or 1.      *)
(***************************************************************************)
EXTENDS Integers, Sequences, FiniteSets, TLC

(***************************************************************************)
(* Bounds of the model                                                     *)
(***************************************************************************)
\* longest symbol stream drawn from the full symbol pool
MaxSyms == 2
\* longest symbol stream drawn from the same-file pool (lets the scan of
\* the sorted names run into its over-collection bound)
MaxDeep == 5
\* largest explicit result limit of a search
MaxLimit == 1
\* most buildIndex calls the extension starts in one run
MaxBuilds == 3
\* most files of the working tree that differ from HEAD at the start
MaxDirty == 1
\* most steps the surroundings take (an edit, the cache file or .git touched)
MaxEnvSteps == 1
\* most buildIndex calls of the build model
MaxCalls == 2
\* symbols of a freely drawn stream of the index model
MaxIdx == 3
\* exported top-level symbols of one file in the generated streams
MaxWide == 10
\* nodes of a syntax tree
MaxNodes == 5
\* characters of a parameter list
MaxText == 123
\* further files of a large repository
MaxExtra == 201
\* ancestors of a declaration
MaxAncestors == 3

(***************************************************************************)
(* Optional values                                                         *)
(***************************************************************************)
None == <<>>
Some(v) == <<v>>
IsSome(o) == Len(o) > 0
Get(o) == o[1]

Min(a, b) == IF a < b THEN a ELSE b
Max(a, b) == IF a > b THEN a ELSE b

(***************************************************************************)
(* JavaScript strings                                                      *)
(***************************************************************************)
\* String.prototype.toLowerCase on one code unit (A-Z -> a-z)
ToLowerChar(c) == IF c >= 65 /\ c <= 90 THEN c + 32 ELSE c
toLowerCase(s) == [i \in 1..Len(s) |-> ToLowerChar(s[i])]

\* String.prototype.startsWith
startsWith(s, p) == Len(p) <= Len(s) /\ SubSeq(s, 1, Len(p)) = p

\* String.prototype.includes
includes(s, p) ==
  \E i \in 0..(Len(s) - Len(p)) : SubSeq(s, i + 1, i + Len(p)) = p

\* the order of the default sort: by UTF-16 code units, a proper prefix first
StrLess(s, t) ==
  \E i \in 1..(Min(Len(s), Len(t)) + 1) :
    /\ \A j \in 1..(i - 1) : s[j] = t[j]
    /\ IF i <= Len(s) /\ i <= Len(t) THEN s[i] < t[i]
       ELSE i > Len(s) /\ i <= Len(t)

\* [...set].sort()
RECURSIVE SortStrings(_)
SortStrings(S) ==
  IF S = {} THEN <<>>
  ELSE LET m == CHOOSE x \in S : \A y \in S \ {x} : StrLess(x, y)
       IN <<m>> \o SortStrings(S \ {m})

\* Array.prototype.slice(0, n)
Slice0(s, n) ==
  IF n >= 0 THEN SubSeq(s, 1, Min(n, Len(s)))
  ELSE SubSeq(s, 1, Max(Len(s) + n, 0))

(***************************************************************************)
(* Symbols (types.ts)                                                      *)
(***************************************************************************)
SymbolKind ==
  {"function", "class", "method", "type", "interface", "variable", "module", "enum"}

Sym(n, k, f, e) ==
  [name |-> n, kind |-> k, file |-> f, line |-> 1,
   signature |-> None, parent |-> None, exported |-> e]

\* "A", "a", "ab", "ba": for the query "a" one name per tier
NameA == <<65>>
Namea == <<97>>
Nameab == <<97, 98>>
Nameba == <<98, 97>>
Names == {NameA, Namea, Nameab, Nameba}

\* "s/x.ts", "t/x.ts"
FileS == <<115, 47, 120, 46, 116, 115>>
FileT == <<116, 47, 120, 46, 116, 115>>

\* the symbols the streams of the search model are drawn from: every name
\* as a private function and an exported class of s/x.ts and as an exported
\* function of t/x.ts, so that each filter keeps some and drops some
SymbolPool ==
  { Sym(n, "function", FileS, FALSE) : n \in Names }
    \cup { Sym(n, "class", FileS, TRUE) : n \in Names }
    \cup { Sym(n, "function", FileT, TRUE) : n \in Names }

\* the functions of s/x.ts the longer streams are drawn from
DeepPool ==
  { Sym(Namea, "function", FileS, FALSE),
    Sym(Nameab, "function", FileS, FALSE),
    Sym(Nameab, "function", FileS, TRUE) }

SeqsUpTo(S, lo, hi) == UNION { [1..n -> S] : n \in lo..hi }

Streams == SeqsUpTo(SymbolPool, 0, MaxSyms) \cup SeqsUpTo(DeepPool, MaxSyms + 1, MaxDeep)

(***************************************************************************)
(* createCodeIndex: the lookup structures                                  *)
(***************************************************************************)
\* byName.get(name): the symbols of that name, in stream order
byName(symbols, name) == SelectSeq(symbols, LAMBDA s : s.name = name)

\* byNameLower.get(lower)
byNameLower(symbols, lower) ==
  SelectSeq(symbols, LAMBDA s : toLowerCase(s.name) = lower)

\* byFile.get(file)
byFile(symbols, file) == SelectSeq(symbols, LAMBDA s : s.file = file)

nameSet(symbols) == { symbols[i].name : i \in 1..Len(symbols) }

sortedNames(symbols) == SortStrings(nameSet(symbols))

DefaultLimit == 20

\* options?.limit ?? 20
LimitOf(options) == IF IsSome(options.limit) THEN Get(options.limit) ELSE DefaultLimit

\* applyFilters that forgets the scope filter
applyFiltersNoScope(results, options) ==
  LET f1 == IF IsSome(options.kind)
            THEN SelectSeq(results, LAMBDA s : s.kind = Get(options.kind))
            ELSE results
      f3 == IF IsSome(options.exported)
            THEN SelectSeq(f1, LAMBDA s : s.exported = Get(options.exported))
            ELSE f1
  IN Slice0(f3, LimitOf(options))

applyFilters(results, options) ==
  LET f1 == IF IsSome(options.kind)
            THEN SelectSeq(results, LAMBDA s : s.kind = Get(options.kind))
            ELSE results
      f2 == IF IsSome(options.scope) /\ Len(Get(options.scope)) > 0
            THEN SelectSeq(f1, LAMBDA s : startsWith(s.file, Get(options.scope)))
            ELSE f1
      f3 == IF IsSome(options.exported)
            THEN SelectSeq(f2, LAMBDA s : s.exported = Get(options.exported))
            ELSE f2
  IN Slice0(f3, LimitOf(options))

\* the test of one name in the prefix scan and in the substring scan
NameMatches(tier, name, lower) ==
  IF tier = "prefix" THEN startsWith(toLowerCase(name), lower)
  ELSE includes(toLowerCase(name), lower)

\* a scan that breaks as soon as limit symbols have been gathered
RECURSIVE ScanNamesAtLimit(_, _, _, _, _, _, _)
ScanNamesAtLimit(symbols, names, i, acc, tier, lower, limit) ==
  IF i > Len(names) THEN acc
  ELSE LET acc2 == IF NameMatches(tier, names[i], lower)
                   THEN acc \o byName(symbols, names[i])
                   ELSE acc
       IN IF Len(acc2) >= limit THEN acc2
          ELSE ScanNamesAtLimit(symbols, names, i + 1, acc2, tier, lower, limit)

\* the loop over sortedNames: gather the symbols of the matching names and
\* break once more than limit * 3 have been gathered
RECURSIVE ScanNames(_, _, _, _, _, _, _)
ScanNames(symbols, names, i, acc, tier, lower, limit) ==
  IF i > Len(names) THEN acc
  ELSE LET acc2 == IF NameMatches(tier, names[i], lower)
                   THEN acc \o byName(symbols, names[i])
                   ELSE acc
       IN IF Len(acc2) > limit * 3 THEN acc2
          ELSE ScanNames(symbols, names, i + 1, acc2, tier, lower, limit)

\* search that returns the first tier with raw matches, whatever the
\* filters leave of it
searchNoFallThrough(syms, q, opt) ==
  LET limit == LimitOf(opt)
      opts == [opt EXCEPT !.limit = Some(limit)]
      exact == byName(syms, q)
      lower == toLowerCase(q)
      caseInsensitive == byNameLower(syms, lower)
      prefixResults == ScanNames(syms, sortedNames(syms), 1, <<>>, "prefix", lower, limit)
      substringResults == ScanNames(syms, sortedNames(syms), 1, <<>>, "substring", lower, limit)
  IN IF Len(exact) > 0 THEN applyFilters(exact, opts)
     ELSE IF Len(caseInsensitive) > 0 THEN applyFilters(caseInsensitive, opts)
     ELSE IF Len(prefixResults) > 0 THEN applyFilters(prefixResults, opts)
     ELSE applyFilters(substringResults, opts)

\* search without the exact tier: it starts at the case-insensitive tier
searchNoExactTier(syms, q, opt) ==
  LET limit == LimitOf(opt)
      opts == [opt EXCEPT !.limit = Some(limit)]
      lower == toLowerCase(q)
      caseInsensitive == byNameLower(syms, lower)
      ciF == applyFilters(caseInsensitive, opts)
      prefixResults == ScanNames(syms, sortedNames(syms), 1, <<>>, "prefix", lower, limit)
      prefixF == applyFilters(prefixResults, opts)
      substringResults == ScanNames(syms, sortedNames(syms), 1, <<>>, "substring", lower, limit)
  IN IF Len(caseInsensitive) > 0 /\ Len(ciF) > 0 THEN ciF
     ELSE IF Len(prefixResults) > 0 /\ Len(prefixF) > 0 THEN prefixF
     ELSE applyFilters(substringResults, opts)

search(syms, q, opt) ==
  LET limit == LimitOf(opt)
      opts == [opt EXCEPT !.limit = Some(limit)]
      exact == byName(syms, q)
      exactF == applyFilters(exact, opts)
      lower == toLowerCase(q)
      caseInsensitive == byNameLower(syms, lower)
      ciF == applyFilters(caseInsensitive, opts)
      prefixResults == ScanNames(syms, sortedNames(syms), 1, <<>>, "prefix", lower, limit)
      prefixF == applyFilters(prefixResults, opts)
      substringResults == ScanNames(syms, sortedNames(syms), 1, <<>>, "substring", lower, limit)
  IN IF Len(exact) > 0 /\ Len(exactF) > 0 THEN exactF
     ELSE IF Len(caseInsensitive) > 0 /\ Len(ciF) > 0 THEN ciF
     ELSE IF Len(prefixResults) > 0 /\ Len(prefixF) > 0 THEN prefixF
     ELSE applyFilters(substringResults, opts)

(***************************************************************************)
(* languages.ts and the extractor registry                                 *)
(***************************************************************************)
\* the highest position of code unit c in s, 0 when there is none
LastIndexOf(s, c) ==
  IF \E i \in 1..Len(s) : s[i] = c
  THEN CHOOSE i \in 1..Len(s) : s[i] = c /\ \A j \in (i + 1)..Len(s) : s[j] # c
  ELSE 0

\* node:path extname: from the last "." of the last path segment, "" when
\* there is none or the segment starts with it
extname(path) ==
  LET slash == LastIndexOf(path, 47)
      dot == LastIndexOf(path, 46)
  IN IF dot = 0 \/ dot <= slash + 1 THEN <<>> ELSE SubSeq(path, dot, Len(path))

Config(language, wasmFile) == [language |-> language, wasmFile |-> wasmFile]

\* LANGUAGE_MAP[ext] for ".ts", ".tsx", ".js", ".py", ".go", ".rs", ".rb", ".java"
getLanguageConfig(ext) ==
  CASE ext = <<46, 116, 115>> -> Some(Config("typescript", "tree-sitter-typescript.wasm"))
    [] ext = <<46, 116, 115, 120>> -> Some(Config("tsx", "tree-sitter-tsx.wasm"))
    [] ext = <<46, 106, 115>> -> Some(Config("javascript", "tree-sitter-javascript.wasm"))
    [] ext = <<46, 112, 121>> -> Some(Config("python", "tree-sitter-python.wasm"))
    [] ext = <<46, 103, 111>> -> Some(Config("go", "tree-sitter-go.wasm"))
    [] ext = <<46, 114, 115>> -> Some(Config("rust", "tree-sitter-rust.wasm"))
    [] ext = <<46, 114, 98>> -> Some(Config("ruby", "tree-sitter-ruby.wasm"))
    [] ext = <<46, 106, 97, 118, 97>> -> Some(Config("java", "tree-sitter-java.wasm"))
    [] OTHER -> None

\* the languages the extractors record has an entry for
ExtractorLanguages ==
  {"typescript", "tsx", "javascript", "python", "go", "rust", "ruby"}

getExtractor(language) ==
  IF language \in ExtractorLanguages THEN Some(language) ELSE None

(***************************************************************************)
(* The repository the build reads                                          *)
(***************************************************************************)
\* "s/y.py", "s/z.java", "README.md"
FileP == <<115, 47, 121, 46, 112, 121>>
FileJ == <<115, 47, 122, 46, 106, 97, 118, 97>>
FileM == <<82, 69, 65, 68, 77, 69, 46, 109, 100>>

\* the files whose content the model varies
CodeFiles == {FileS, FileP, FileT}

\* output of git ls-files --cached --others --exclude-standard, in path order
ListedFiles == <<FileM, FileS, FileP, FileJ, FileT>>

\* the n further files of a larger repository: "x<k>.ts", listed after the
\* others
ExtraFile(k) == <<120, 255 + k, 46, 116, 115>>
Listing(n) == ListedFiles \o [k \in 1..n |-> ExtraFile(k)]

\* what a file can hold: the committed text, another text, a text the
\* parser or extractor throws on, a text of exactly 500,000 characters,
\* a longer one, or nothing readable (deleted from the working tree)
Contents == {"v1", "v2", "bad", "edge", "big", "gone"}

SizeCeiling == 500000

Readable(c) == c # "gone"
SourceLength(c) ==
  CASE c = "big" -> SizeCeiling + 1
    [] c = "edge" -> SizeCeiling
    [] OTHER -> 40
ParseThrows(c) == c = "bad"

\* the working tree: the further files hold their committed text, which
\* declares nothing
WorkingTree(w, n) ==
  [f \in CodeFiles \cup { ExtraFile(k) : k \in 1..n } |-> IF f \in CodeFiles THEN w[f] ELSE "blank"]

\* extractor.extract(tree, source, file) for the texts that parse
Extract(file, c) ==
  CASE c = "v1" ->
         << [name |-> Namea, kind |-> "function", file |-> file, line |-> 1,
             signature |-> Some(<<40, 41>>), parent |-> None, exported |-> TRUE] >>
    [] c = "v2" ->
         << [name |-> NameA, kind |-> "class", file |-> file, line |-> 1,
             signature |-> None, parent |-> None, exported |-> TRUE],
            [name |-> Nameab, kind |-> "method", file |-> file, line |-> 2,
             signature |-> Some(<<40, 41>>), parent |-> Some(NameA), exported |-> FALSE] >>
    [] c = "blank" -> <<>>
    [] OTHER ->
         << [name |-> Nameba, kind |-> "function", file |-> file, line |-> 3,
             signature |-> None, parent |-> None, exported |-> FALSE] >>

\* git rev-parse HEAD fails without a repository and before the first commit
RevParseFails(v) == v \in {"none", "unborn"}
\* git status --porcelain fails without a repository and when its output
\* exceeds maxBuffer
StatusFails(v, tooBig) == v = "none" \/ tooBig
\* git ls-files fails without a repository
LsFilesFails(v) == v = "none"

\* the porcelain status: one code per file, by how the file differs from
\* what is committed (or staged, before the first commit), not by its text
Porcelain(v, tree) ==
  [f \in CodeFiles |->
     (IF v = "unborn" THEN "A" ELSE " ")
       \o (IF tree[f] = "v1" THEN " " ELSE IF tree[f] = "gone" THEN "D" ELSE "M")]

\* sha256 over the HEAD text and the status text, taken to be free of
\* collisions: the digest is the pair of what went into it
computeRepoHash(v, tooBig, tree) ==
  [head |-> IF RevParseFails(v) THEN "no-head" ELSE "c1",
   status |-> IF StatusFails(v, tooBig) THEN None ELSE Some(Porcelain(v, tree))]

(***************************************************************************)
(* The cache file (.pi/code-index-cache.json)                              *)
(***************************************************************************)
CACHE_VERSION == 1

\* a stringify that loses the parent of a symbol
SymbolToJsonNoParent(s) ==
  << <<"name", s.name>>, <<"kind", s.kind>>, <<"file", s.file>>, <<"line", s.line>> >>
    \o (IF IsSome(s.signature) THEN << <<"signature", Get(s.signature)>> >> ELSE <<>>)
    \o << <<"exported", s.exported>> >>

\* JSON.stringify of a symbol: the properties that are not undefined
SymbolToJson(s) ==
  << <<"name", s.name>>, <<"kind", s.kind>>, <<"file", s.file>>, <<"line", s.line>> >>
    \o (IF IsSome(s.signature) THEN << <<"signature", Get(s.signature)>> >> ELSE <<>>)
    \o (IF IsSome(s.parent) THEN << <<"parent", Get(s.parent)>> >> ELSE <<>>)
    \o << <<"exported", s.exported>> >>

HasKey(j, k) == \E i \in 1..Len(j) : j[i][1] = k
Value(j, k) == j[CHOOSE i \in 1..Len(j) : j[i][1] = k][2]
Optional(j, k) == IF HasKey(j, k) THEN Some(Value(j, k)) ELSE None

\* JSON.parse of a symbol: a missing property reads as undefined
JsonToSymbol(j) ==
  [name |-> Value(j, "name"), kind |-> Value(j, "kind"), file |-> Value(j, "file"),
   line |-> Value(j, "line"), signature |-> Optional(j, "signature"),
   parent |-> Optional(j, "parent"), exported |-> Value(j, "exported")]

NoData == [version |-> 0, hash |-> [head |-> "", status |-> None],
           symbols |-> <<>>, languages |-> <<>>]

NoCacheFile == [state |-> "missing", data |-> NoData]

\* a loadCache that does not compare the hash
loadCacheAnyHash(file, h) ==
  IF file.state # "json" THEN None
  ELSE IF file.data.version # CACHE_VERSION THEN None
  ELSE Some([version |-> file.data.version,
             hash |-> file.data.hash,
             symbols |-> [i \in 1..Len(file.data.symbols) |->
                            JsonToSymbol(file.data.symbols[i])],
             languages |-> file.data.languages])

\* loadCache: null unless the file exists, reads, parses and carries the
\* current version and the given hash
loadCache(file, h) ==
  IF file.state = "missing" THEN None
  ELSE IF file.state # "json" THEN None
  ELSE IF file.data.version # CACHE_VERSION \/ file.data.hash # h THEN None
  ELSE Some([version |-> file.data.version,
             hash |-> file.data.hash,
             symbols |-> [i \in 1..Len(file.data.symbols) |->
                            JsonToSymbol(file.data.symbols[i])],
             languages |-> file.data.languages])

\* saveCache: the file afterwards; a failed write leaves the old file or a
\* truncated one, and is swallowed
saveCache(file, h, syms, languages, write) ==
  CASE write = "written" ->
         [state |-> "json",
          data |-> [version |-> CACHE_VERSION, hash |-> h,
                    symbols |-> [i \in 1..Len(syms) |-> SymbolToJson(syms[i])],
                    languages |-> languages]]
    [] write = "torn" -> [state |-> "malformed", data |-> NoData]
    [] OTHER -> file

(***************************************************************************)
(* buildIndex: the pure parts                                              *)
(***************************************************************************)
\* one turn of the grouping loop: the file joins the list of its language
\* and the tally of that language grows by one
GroupFile(acc, file) ==
  LET config == getLanguageConfig(extname(file))
  IN IF ~IsSome(config) THEN acc
     ELSE LET lang == Get(config).language
              known == \E k \in 1..Len(acc.byLanguage) : acc.byLanguage[k].language = lang
              at == CHOOSE k \in 1..Len(acc.byLanguage) : acc.byLanguage[k].language = lang
          IN IF known
             THEN [byLanguage |-> [acc.byLanguage EXCEPT ![at].files = @ \o <<file>>],
                   counts |-> [acc.counts EXCEPT ![at][2] = @ + 1]]
             ELSE [byLanguage |-> acc.byLanguage \o <<[language |-> lang, files |-> <<file>>]>>,
                   counts |-> acc.counts \o << <<lang, 1>> >>]

\* the turns for files[lo..hi] in order: the first half is done when the
\* second begins
RECURSIVE GroupRange(_, _, _, _)
GroupRange(files, lo, hi, acc) ==
  IF lo > hi THEN acc
  ELSE IF lo = hi THEN GroupFile(acc, files[lo])
  ELSE LET mid == (lo + hi) \div 2
           half == GroupRange(files, lo, mid, acc)
       IN IF Len(half.counts) = Len(half.byLanguage)
          THEN GroupRange(files, mid + 1, hi, half)
          ELSE half

GroupFiles(files, i, acc) == GroupRange(files, i, Len(files), acc)

RECURSIVE SumFiles(_, _)
SumFiles(groups, k) ==
  IF k > Len(groups) THEN 0 ELSE Len(groups[k].files) + SumFiles(groups, k + 1)

BATCH_SIZE == 100

\* a loop body in which a throwing file takes the symbols gathered so far
\* with it
ProcessFileLosesAll(acc, file, tree) ==
  LET c == tree[file]
      read == [acc EXCEPT !.seen = @ \o <<[file |-> file, content |-> c]>>]
  IN IF ~Readable(c) THEN [read EXCEPT !.processed = @ + 1]
     ELSE IF SourceLength(c) > SizeCeiling THEN [read EXCEPT !.processed = @ + 1]
     ELSE IF ParseThrows(c) THEN [read EXCEPT !.symbols = <<>>, !.processed = @ + 1]
     ELSE [read EXCEPT !.symbols = @ \o Extract(file, c), !.processed = @ + 1]

\* the body of the loop over a batch, for one file: an unreadable file and
\* a throwing parser or extractor end in the empty catch, an oversized file
\* is skipped, and each way the file counts as processed
ProcessFile(acc, file, tree) ==
  LET c == tree[file]
      read == [acc EXCEPT !.seen = @ \o <<[file |-> file, content |-> c]>>]
  IN IF ~Readable(c) THEN [read EXCEPT !.processed = @ + 1]
     ELSE IF SourceLength(c) > SizeCeiling THEN [read EXCEPT !.processed = @ + 1]
     ELSE IF ParseThrows(c) THEN [read EXCEPT !.processed = @ + 1]
     ELSE [read EXCEPT !.symbols = @ \o Extract(file, c), !.processed = @ + 1]

\* the loop body for batch[lo..hi] in order: the first half is done when
\* the second begins
RECURSIVE ProcessRange(_, _, _, _, _)
ProcessRange(batch, lo, hi, acc, tree) ==
  IF lo > hi THEN acc
  ELSE IF lo = hi THEN ProcessFile(acc, batch[lo], tree)
  ELSE LET mid == (lo + hi) \div 2
           half == ProcessRange(batch, lo, mid, acc, tree)
       IN IF half.processed >= acc.processed
          THEN ProcessRange(batch, mid + 1, hi, half, tree)
          ELSE half

ProcessBatch(batch, i, acc, tree) == ProcessRange(batch, i, Len(batch), acc, tree)

\* the set of files that occur in a stream
FilesOf(syms) == { syms[i].file : i \in 1..Len(syms) }

(***************************************************************************)
(* createCodeIndex: the loop that fills the Maps.  A Map is the sequence   *)
(* of its entries <<key, value>> in insertion order.                       *)
(***************************************************************************)
MapHas(m, k) == \E i \in 1..Len(m) : m[i][1] = k
MapAt(m, k) == CHOOSE i \in 1..Len(m) : m[i][1] = k
\* m.get(k) of a key that is present
MapGet(m, k) == m[MapAt(m, k)][2]
MapKeys(m) == [i \in 1..Len(m) |-> m[i][1]]

\* a push that puts the symbol at the front of its bucket
MapPushFront(m, k, v) ==
  IF MapHas(m, k) THEN [m EXCEPT ![MapAt(m, k)][2] = <<v>> \o @]
  ELSE m \o << <<k, <<v>>>> >>

\* if (!m.has(k)) m.set(k, []); m.get(k).push(v)
MapPush(m, k, v) ==
  IF MapHas(m, k) THEN [m EXCEPT ![MapAt(m, k)][2] = @ \o <<v>>]
  ELSE m \o << <<k, <<v>>>> >>

\* a loop body that files every symbol after the first of a file under
\* the first file
IndexSymOneFile(acc, sym) ==
  [byName |-> MapPush(acc.byName, sym.name, sym),
   byNameLower |-> MapPush(acc.byNameLower, toLowerCase(sym.name), sym),
   byFile |-> IF acc.byFile = <<>> THEN MapPush(acc.byFile, sym.file, sym)
              ELSE MapPush(acc.byFile, acc.byFile[1][1], sym),
   nameSet |-> acc.nameSet \cup {sym.name}]

\* the body of the loop over the symbols
IndexSym(acc, sym) ==
  [byName |-> MapPush(acc.byName, sym.name, sym),
   byNameLower |-> MapPush(acc.byNameLower, toLowerCase(sym.name), sym),
   byFile |-> MapPush(acc.byFile, sym.file, sym),
   nameSet |-> acc.nameSet \cup {sym.name}]

RECURSIVE IndexSyms(_, _, _)
IndexSyms(syms, i, acc) ==
  IF i > Len(syms) THEN acc
  ELSE IndexSyms(syms, i + 1, IndexSym(acc, syms[i]))

\* the lookup structures createCodeIndex closes over
Lookups(syms) ==
  LET filled == IndexSyms(syms, 1, [byName |-> <<>>, byNameLower |-> <<>>,
                                    byFile |-> <<>>, nameSet |-> {}])
  IN [byName |-> filled.byName, byNameLower |-> filled.byNameLower,
      byFile |-> filled.byFile, sortedNames |-> SortStrings(filled.nameSet)]

\* createCodeIndex: the stream, the tally and the two counts
createCodeIndex(syms, languageFileCounts) ==
  [symbols |-> syms, languages |-> languageFileCounts,
   symbolCount |-> Len(syms), fileCount |-> Len(Lookups(syms).byFile)]

(***************************************************************************)
(* outline and map.  A text is the sequence of its lines, a line the       *)
(* record of what its template is filled with.                             *)
(***************************************************************************)
Slash == 47
Sep == <<Slash>>

\* String.prototype.endsWith
endsWith(s, p) == Len(p) <= Len(s) /\ SubSeq(s, Len(s) - Len(p) + 1, Len(s)) = p

\* s.slice(n), 0 <= n
SliceFrom(s, n) == SubSeq(s, n + 1, Len(s))

\* s.split(sep): the pieces between the separators, at least one
RECURSIVE Split(_, _, _)
Split(s, i, piece) ==
  IF i > Len(s) THEN <<piece>>
  ELSE IF s[i] = Slash THEN <<piece>> \o Split(s, i + 1, <<>>)
  ELSE Split(s, i + 1, piece \o <<s[i]>>)
split(s) == Split(s, 1, <<>>)

\* parts.join(sep)
RECURSIVE Join(_, _)
Join(parts, i) ==
  IF i > Len(parts) THEN <<>>
  ELSE IF i = Len(parts) THEN parts[i]
  ELSE parts[i] \o Sep \o Join(parts, i + 1)

\* the truth of an optional string: undefined and "" are falsy
Truthy(o) == IsSome(o) /\ Get(o) # <<>>
\* x ? x : ""
OrEmpty(o) == IF Truthy(o) THEN Get(o) ELSE <<>>

\* path.endsWith("/") ? path : path + "/"
Normalized(path) == IF endsWith(path, Sep) THEN path ELSE path \o Sep

NamesOf(syms) == [i \in 1..Len(syms) |-> syms[i].name]

\* the line of a top-level symbol and the line of a child
TopLine(sym) ==
  [t |-> "top", kind |-> sym.kind, name |-> sym.name,
   sig |-> OrEmpty(sym.signature), exported |-> sym.exported]
ChildLine(sym) ==
  [t |-> "child", kind |-> sym.kind, name |-> sym.name, sig |-> OrEmpty(sym.signature)]

\* formatFileOutline: the path, then each top-level symbol followed by the
\* nested symbols whose parent is its name
RECURSIVE FileLines(_, _, _)
FileLines(topLevel, i, byParent) ==
  IF i > Len(topLevel) THEN <<>>
  ELSE LET sym == topLevel[i]
           children == IF MapHas(byParent, sym.name) THEN MapGet(byParent, sym.name) ELSE <<>>
       IN <<TopLine(sym)>>
            \o [k \in 1..Len(children) |-> ChildLine(children[k])]
            \o FileLines(topLevel, i + 1, byParent)

RECURSIVE GroupByParent(_, _, _)
GroupByParent(nested, i, m) ==
  IF i > Len(nested) THEN m
  ELSE GroupByParent(nested, i + 1, MapPush(m, Get(nested[i].parent), nested[i]))

formatFileOutline(file, syms) ==
  LET topLevel == SelectSeq(syms, LAMBDA x : ~Truthy(x.parent))
      nested == SelectSeq(syms, LAMBDA x : Truthy(x.parent))
  IN <<[t |-> "path", path |-> file]>>
       \o FileLines(topLevel, 1, GroupByParent(nested, 1, <<>>))

\* the files of byFile under the directory within the depth, in Map order
RECURSIVE DirFiles(_, _, _, _)
DirFiles(files, i, normalizedPath, depth) ==
  IF i > Len(files) THEN <<>>
  ELSE LET file == files[i][1]
           keep == /\ startsWith(file, normalizedPath)
                   /\ Len(split(SliceFrom(file, Len(normalizedPath)))) <= depth
       IN (IF keep THEN <<files[i]>> ELSE <<>>)
            \o DirFiles(files, i + 1, normalizedPath, depth)

\* a line that lists every exported name, however many
DirLineNoLimit(file, syms, normalizedPath) ==
  LET topLevel == NamesOf(SelectSeq(syms, LAMBDA x : ~Truthy(x.parent) /\ x.exported))
      relFile == SliceFrom(file, Len(normalizedPath))
  IN IF Len(topLevel) > 0
     THEN [t |-> "names", rel |-> relFile, names |-> topLevel, more |-> 0]
     ELSE [t |-> "count", rel |-> relFile, count |-> Len(syms), plural |-> Len(syms) # 1]

MaxListed == 8

\* the line of a file in a directory outline
DirLine(file, syms, normalizedPath) ==
  LET topLevel == NamesOf(SelectSeq(syms, LAMBDA x : ~Truthy(x.parent) /\ x.exported))
      relFile == SliceFrom(file, Len(normalizedPath))
  IN IF Len(topLevel) > 0
     THEN [t |-> "names", rel |-> relFile, names |-> Slice0(topLevel, MaxListed),
           more |-> IF Len(topLevel) > MaxListed THEN Len(topLevel) - MaxListed ELSE 0]
     ELSE [t |-> "count", rel |-> relFile, count |-> Len(syms), plural |-> Len(syms) # 1]

DefaultOutlineDepth == 1

\* an outline that takes every path for a directory
outlineAsDirectory(lk, path, depth) ==
  LET normalizedPath == Normalized(path)
      dirFiles == DirFiles(lk.byFile, 1, normalizedPath, depth)
      sortedFiles == SortStrings({ dirFiles[i][1] : i \in 1..Len(dirFiles) })
  IN <<[t |-> "dir", path |-> normalizedPath]>>
       \o [k \in 1..Len(sortedFiles) |->
             DirLine(sortedFiles[k], MapGet(dirFiles, sortedFiles[k]), normalizedPath)]
       \o (IF Len(sortedFiles) = 0 THEN <<[t |-> "none"]>> ELSE <<>>)

\* outline(path, depth) over the byFile of an index
outline(lk, path, depth) ==
  IF MapHas(lk.byFile, path) THEN formatFileOutline(path, MapGet(lk.byFile, path))
  ELSE LET normalizedPath == Normalized(path)
           dirFiles == DirFiles(lk.byFile, 1, normalizedPath, depth)
           sortedFiles == SortStrings({ dirFiles[i][1] : i \in 1..Len(dirFiles) })
       IN <<[t |-> "dir", path |-> normalizedPath]>>
            \o [k \in 1..Len(sortedFiles) |->
                  DirLine(sortedFiles[k], MapGet(dirFiles, sortedFiles[k]), normalizedPath)]
            \o (IF Len(sortedFiles) = 0 THEN <<[t |-> "none"]>> ELSE <<>>)

\* entries.sort((a, b) => b[1] - a[1]): stable, greater count first
RECURSIVE SortByCount(_)
SortByCount(entries) ==
  IF entries = <<>> THEN <<>>
  ELSE LET first == CHOOSE i \in 1..Len(entries) :
                      /\ \A j \in 1..Len(entries) : entries[j][2] <= entries[i][2]
                      /\ \A j \in 1..(i - 1) : entries[j][2] < entries[i][2]
       IN <<entries[first]>>
            \o SortByCount([k \in 1..(Len(entries) - 1) |->
                              IF k < first THEN entries[k] ELSE entries[k + 1]])

\* [...new Set(names)]: the first occurrence of each name, in order
RECURSIVE Unique(_, _)
Unique(names, i) ==
  IF i > Len(names) THEN <<>>
  ELSE (IF \E j \in 1..(i - 1) : names[j] = names[i] THEN <<>> ELSE <<names[i]>>)
         \o Unique(names, i + 1)

NoStats == [files |-> 0, exports |-> <<>>, totalSymbols |-> 0]

\* the body of the loop over d for one file: the directory of level d is
\* entered into dirStats and, at the last level or when the file lies
\* above the depth, the file is counted there
RECURSIVE CountLevels(_, _, _, _, _)
CountLevels(dirStats, parts, syms, d, depth) ==
  LET last == Min(Len(parts) - 1, depth)
  IN IF d > last THEN dirStats
     ELSE LET dirPath == Join(SubSeq(parts, 1, d), 1) \o Sep
              entered == IF MapHas(dirStats, dirPath) THEN dirStats
                         ELSE dirStats \o << <<dirPath, NoStats>> >>
              at == MapAt(entered, dirPath)
              exported == NamesOf(SelectSeq(syms, LAMBDA x : x.exported /\ ~Truthy(x.parent)))
              counted ==
                IF d = last \/ Len(parts) - 1 < depth
                THEN [entered EXCEPT ![at][2] =
                        [files |-> @.files + 1, exports |-> @.exports \o exported,
                         totalSymbols |-> @.totalSymbols + Len(syms)]]
                ELSE entered
          IN CountLevels(counted, parts, syms, d + 1, depth)

\* path ? (path.endsWith("/") ? path : path + "/") : ""
PrefixOf(path) == IF Truthy(path) THEN Normalized(Get(path)) ELSE <<>>

InScope(file, prefix) == prefix = <<>> \/ startsWith(file, prefix)
RelFile(file, prefix) == IF prefix = <<>> THEN file ELSE SliceFrom(file, Len(prefix))

\* the loop over byFile that fills dirStats
RECURSIVE DirStats(_, _, _, _, _)
DirStats(files, i, prefix, depth, dirStats) ==
  IF i > Len(files) THEN dirStats
  ELSE IF ~InScope(files[i][1], prefix) THEN DirStats(files, i + 1, prefix, depth, dirStats)
  ELSE DirStats(files, i + 1, prefix, depth,
                CountLevels(dirStats, split(RelFile(files[i][1], prefix)),
                            files[i][2], 1, depth))

\* the files in scope whose relative path has no separator
RootFiles(files, prefix) ==
  Cardinality({ i \in 1..Len(files) :
                  /\ InScope(files[i][1], prefix)
                  /\ ~includes(RelFile(files[i][1], prefix), Sep) })

MaxExports == 6

\* the line of a directory: the last piece of dir.split(sep) is empty, so
\* the label is dir itself
MapDirLine(dir, stats) ==
  LET uniqueExports == Unique(stats.exports, 1)
      pieces == split(dir)
      label == IF pieces[Len(pieces)] # <<>> THEN pieces[Len(pieces)] ELSE dir
  IN [t |-> "dirline", indent |-> Len(pieces) - 1, label |-> label, files |-> stats.files,
      exports |-> Len(uniqueExports), names |-> Slice0(uniqueExports, MaxExports),
      more |-> IF Len(uniqueExports) > MaxExports THEN Len(uniqueExports) - MaxExports ELSE 0]

DefaultMapDepth == 2

\* map(path, depth) over an index
map(lk, path, depth) ==
  LET prefix == PrefixOf(path)
      dirStats == DirStats(lk.byFile, 1, prefix, depth, <<>>)
      sortedDirs == SortStrings({ dirStats[i][1] : i \in 1..Len(dirStats) })
      rootFiles == RootFiles(lk.byFile, prefix)
  IN <<[t |-> "header", files |-> lk.fileCount, symbols |-> Len(lk.symbols),
        languages |-> SortByCount(lk.languages)],
       [t |-> "blank"]>>
       \o [k \in 1..Len(sortedDirs) |->
             MapDirLine(sortedDirs[k], MapGet(dirStats, sortedDirs[k]))]
       \o (IF rootFiles > 0 THEN <<[t |-> "root", count |-> rootFiles]>> ELSE <<>>)

(***************************************************************************)
(* walkTree (extractors/base.ts).  A tree is its number of nodes n, the    *)
(* parent of each node but the root (node 1) and the type of each node;    *)
(* the children of a node are ordered by their number.                     *)
(***************************************************************************)
NodeTypes == {"one", "two", "null", "other"}

\* handlers[type](node): a symbol, an array of symbols, null, or no handler
HasHandler(type) == type # "other"
HandlerResult(type, node) ==
  CASE type = "one" -> <<[node |-> node, k |-> 1]>>
    [] type = "two" -> <<[node |-> node, k |-> 1], [node |-> node, k |-> 2]>>
    [] OTHER -> <<>>

ChildrenOf(t, node) == { c \in 2..t.n : t.parent[c] = node }

\* cursor.gotoFirstChild(): the first child, 0 when there is none
FirstChild(t, node) ==
  IF ChildrenOf(t, node) = {} THEN 0
  ELSE CHOOSE c \in ChildrenOf(t, node) : \A d \in ChildrenOf(t, node) : c <= d

\* cursor.gotoNextSibling(): the next child of the parent, 0 when there is
\* none; the node the cursor was made from has no sibling
NextSibling(t, node) ==
  IF node = 1 THEN 0
  ELSE LET later == { c \in ChildrenOf(t, t.parent[node]) : c > node }
       IN IF later = {} THEN 0 ELSE CHOOSE c \in later : \A d \in later : c <= d

\* a climb that gives up at the first ancestor without a next sibling
ClimbOnce(t, node) ==
  IF node = 1 THEN 0
  ELSE NextSibling(t, t.parent[node])

\* the inner loop: up to the first ancestor that has a next sibling, and
\* to that sibling; 0 when gotoParent fails at the root
RECURSIVE Climb(_, _)
Climb(t, node) ==
  IF node = 1 THEN 0
  ELSE IF NextSibling(t, t.parent[node]) # 0 THEN NextSibling(t, t.parent[node])
  ELSE Climb(t, t.parent[node])

\* where the cursor stands after the moves of one turn of the outer loop
Advance(t, node) ==
  IF FirstChild(t, node) # 0 THEN FirstChild(t, node)
  ELSE IF NextSibling(t, node) # 0 THEN NextSibling(t, node)
  ELSE Climb(t, node)

(***************************************************************************)
(* Signatures.  A declaration node is its language, the text of its        *)
(* parameters field and the text of its return type (result) field, each   *)
(* absent or a string.                                                     *)
(***************************************************************************)
SigLimit == 120
SigKept == 117
Ellipsis == <<46, 46, 46>>

\* a cut that keeps SigLimit characters before the marker
TruncateLate(sig) ==
  IF Len(sig) > SigLimit THEN Slice0(sig, SigLimit) \o Ellipsis ELSE sig

\* if (sig.length > 120) sig = sig.slice(0, 117) + "..."
Truncate(sig) ==
  IF Len(sig) > SigLimit THEN Slice0(sig, SigKept) \o Ellipsis ELSE sig

\* \s of the texts at hand: tab, line feed, carriage return, space
IsSpace(c) == c \in {9, 10, 13, 32}

\* the end of the whitespace run that begins at i
RECURSIVE RunEnd(_, _)
RunEnd(str, i) ==
  IF i < Len(str) /\ IsSpace(str[i + 1]) THEN RunEnd(str, i + 1) ELSE i

\* replace(/\s*\n\s*/g, " "): a whitespace run with a line feed in it
\* becomes one space
RECURSIVE Collapse(_, _)
Collapse(str, i) ==
  LET spaces == { k \in i..Len(str) : IsSpace(str[k]) }
  IN IF spaces = {} THEN SubSeq(str, i, Len(str))
     ELSE LET b == CHOOSE k \in spaces : \A m \in spaces : k <= m
              j == RunEnd(str, b)
          IN SubSeq(str, i, b - 1)
               \o (IF \E k \in b..j : str[k] = 10 THEN <<32>> ELSE SubSeq(str, b, j))
               \o Collapse(str, j + 1)

\* params.text, then the joiner and the text of the return type if any
Joined(node, joiner) ==
  Get(node.params) \o (IF IsSome(node.ret) THEN joiner \o Get(node.ret) ELSE <<>>)

\* extractSignature of base.ts, used for typescript, tsx and javascript
extractSignature(node) ==
  IF ~IsSome(node.params) THEN None
  ELSE Some(Truncate(Joined(node, <<58, 32>>)))

\* python and rust: " -> "
arrowSignature(node) ==
  IF ~IsSome(node.params) THEN None
  ELSE Some(Truncate(Joined(node, <<32, 45, 62, 32>>)))

\* go: " "
goSignature(node) ==
  IF ~IsSome(node.params) THEN None
  ELSE Some(Truncate(Joined(node, <<32>>)))

\* ruby: the parameters alone, on one line
rubySignature(node) ==
  IF ~IsSome(node.params) THEN None
  ELSE Some(Truncate(Collapse(Get(node.params), 1)))

SignatureOf(node) ==
  CASE node.language \in {"python", "rust"} -> arrowSignature(node)
    [] node.language = "go" -> goSignature(node)
    [] node.language = "ruby" -> rubySignature(node)
    [] OTHER -> extractSignature(node)

(***************************************************************************)
(* Parents.  A declaration node is seen with its ancestors, nearest        *)
(* first, each a node type and the text of its "name" field if the node    *)
(* has one; a Go method carries its receiver.                              *)
(***************************************************************************)
\* findParentName(node, parentTypes): the name field of the nearest
\* ancestor of one of the types, undefined when that ancestor has no name
\* field or no ancestor is of these types
RECURSIVE findParentName(_, _, _)
findParentName(ancestors, i, parentTypes) ==
  IF i > Len(ancestors) THEN None
  ELSE IF ancestors[i].type \in parentTypes THEN ancestors[i].name
  ELSE findParentName(ancestors, i + 1, parentTypes)

\* the types each handler passes to findParentName
ParentTypes(language) ==
  CASE language = "python" -> {"class_definition"}
    [] language = "rust" -> {"impl_item"}
    [] OTHER -> {"class", "module", "singleton_class"}

\* \w
IsWord(c) == c \in 48..57 \/ c \in 65..90 \/ c \in 97..122 \/ c = 95

\* text.match(/\*?(\w+)/)[1]: the word of the leftmost match, which starts
\* at the first word character or at a "*" that a word character follows
FirstWord(str) ==
  LET starts == { i \in 1..Len(str) :
                    \/ IsWord(str[i])
                    \/ str[i] = 42 /\ i < Len(str) /\ IsWord(str[i + 1]) }
  IN IF starts = {} THEN None
     ELSE LET at == CHOOSE i \in starts : \A j \in starts : i <= j
              from == IF str[at] = 42 THEN at + 1 ELSE at
              to == CHOOSE k \in from..Len(str) :
                      /\ \A m \in from..k : IsWord(str[m])
                      /\ k = Len(str) \/ ~IsWord(str[k + 1])
          IN Some(SubSeq(str, from, to))

\* python function_definition, rust function_item, ruby method
nestedHandler(node) ==
  LET parent == findParentName(node.ancestors, 1, ParentTypes(node.language))
      isMethod == Truthy(parent)
  IN IF node.name = <<>> \/ (node.language = "python" /\ Head(node.name) = 95) THEN None
     ELSE Some([name |-> node.name, kind |-> IF isMethod THEN "method" ELSE "function",
                parent |-> parent])

\* go method_declaration
methodHandler(node) ==
  IF node.name = <<>> THEN None
  ELSE Some([name |-> node.name, kind |-> "method",
             parent |-> IF IsSome(node.receiver) THEN FirstWord(Get(node.receiver).text)
                        ELSE None])

HandlerOf(node) ==
  IF node.language = "go" THEN methodHandler(node) ELSE nestedHandler(node)

(***************************************************************************)
(* State                                                                   *)
(***************************************************************************)
VARIABLES
  \* the index under query (createCodeIndex)
  symbols,   \* the symbol stream the index was created from
  query,     \* the query of the search
  options,   \* its options
  result,    \* the symbols it returned
  searched,  \* whether the search has returned
  lookups,   \* what the index holds: the stream, the Maps, the names, the counts
  asked,     \* the query made last
  text,      \* the text outline or map returned last
  firstCall, \* the first outline or map call made, with the text it returned
  \* the extension (closure state of the default export)
  index,       \* the CodeIndex held, named by the build that returned it, or null
  indexing,    \* a handler is between its start and its end
  indexError,  \* message of the last failed build, or null
  builds,      \* the buildIndex calls in flight
  started,     \* number of buildIndex calls started so far
  reply,       \* what the step just taken told its caller, if it told anything
  ended,       \* how the buildIndex call that completed last ended
  overlapped,  \* a buildIndex call was made while another was in flight
  \* the surroundings of a build
  vcs,           \* "ok", "unborn" (a repository without a commit) or "none"
  statusTooBig,  \* the output of git status exceeds its maxBuffer
  working,       \* the content of each file of the working tree
  cacheFile,     \* .pi/code-index-cache.json
  envSteps,      \* steps the surroundings have taken
  extra,         \* further committed TypeScript files the listing holds
  reports,       \* the calls of onProgress of the build under way
  \* indexer.ts
  parserInitialized,   \* the module's flag
  pc,                  \* where the buildIndex call stands
  noCache,             \* options.noCache
  hash,                \* the repository hash computed at the start
  byLanguage,          \* language -> files, in insertion order
  languageFileCounts,  \* language -> number of files, in insertion order
  totalFiles,
  processed,
  allSymbols,
  langIdx,             \* position of the language loop in byLanguage
  batchStart,          \* i of the batch loop
  outcome,             \* how the last call ended: an index or an error
  \* the history of a call, kept for the properties stated of it
  calls,      \* number of buildIndex calls made
  atCall,     \* the surroundings the call found
  seen,       \* each file read, with the content it had when read
  failed,     \* the languages whose grammar did not load
  cacheWrite, \* how the write of the cache went
  stored,     \* what the last successful saveCache was given
  \* walkTree
  tree,         \* the syntax tree walked
  cursor,       \* the node the cursor stands on
  reachedRoot,
  walked,       \* symbols
  visits,       \* the nodes the outer loop has stood on, in order
  handlerCalls, \* the nodes a handler was called with, in order
  \* the signature of a declaration
  sigNode,      \* language, text of the parameters, text of the return type
  signature,    \* what the symbol stores
  extracted,
  \* the handler of a function or method declaration
  declNode,     \* language, name, ancestors (nearest first), receiver
  recorded,     \* what the handler returned
  handled

indexVars == <<lookups, asked, text, firstCall>>
searchVars == <<symbols, query, options, result, searched, indexVars>>
extVars == <<index, indexing, indexError, builds, started, reply, ended, overlapped>>
envVars == <<vcs, statusTooBig, working, cacheFile, envSteps, extra>>
localVars == <<noCache, hash, byLanguage, languageFileCounts, totalFiles, processed,
               allSymbols, langIdx, batchStart>>
noteVars == <<calls, atCall, seen, failed, cacheWrite, stored, reports>>
walkVars == <<tree, cursor, reachedRoot, walked, visits, handlerCalls>>
sigVars == <<sigNode, signature, extracted>>
declVars == <<declNode, recorded, handled>>
extractVars == <<walkVars, sigVars, declVars>>
buildVars == <<envVars, parserInitialized, pc, localVars, outcome, noteVars, extractVars>>
vars == <<searchVars, extVars, buildVars>>

NoOptions == [kind |-> None, scope |-> None, exported |-> None, limit |-> None]

Queries == {<<>>, Namea, NameA}

OptionSets ==
  [kind : {None, Some("class")},
   scope : {None, Some(<<115>>)},
   exported : {None, Some(TRUE), Some(FALSE)},
   limit : {None} \cup { Some(n) : n \in 0..MaxLimit }]

(***************************************************************************)
(* The search model: an index over a bounded stream, queried               *)
(***************************************************************************)
\* no index under query
NoLookups ==
  [symbols |-> <<>>, byName |-> <<>>, byNameLower |-> <<>>, byFile |-> <<>>,
   sortedNames |-> <<>>, symbolCount |-> 0, fileCount |-> 0, languages |-> <<>>]

IndexIdle ==
  /\ lookups = NoLookups
  /\ asked = None
  /\ text = <<>>
  /\ firstCall = None

\* the extension before its first event
ExtIdle ==
  /\ index = None
  /\ indexing = FALSE
  /\ indexError = None
  /\ builds = {}
  /\ started = 0
  /\ reply = None
  /\ ended = "none"
  /\ overlapped = FALSE

NoHash == [head |-> "", status |-> None]
NoCall == [vcs |-> "ok", cacheFile |-> NoCacheFile, noCache |-> FALSE, hash |-> NoHash]

OneNode == [n |-> 1, parent |-> <<0>>, type |-> <<"other">>]

\* no extractor is at work
WalkIdle ==
  /\ tree = OneNode
  /\ cursor = 1
  /\ reachedRoot = TRUE
  /\ walked = <<>>
  /\ visits = <<>>
  /\ handlerCalls = <<>>

NoNode == [language |-> "typescript", params |-> None, ret |-> None]

SigIdle ==
  /\ sigNode = NoNode
  /\ signature = None
  /\ extracted = FALSE

NoDecl == [language |-> "python", name |-> <<>>, ancestors |-> <<>>, receiver |-> None]

DeclIdle ==
  /\ declNode = NoDecl
  /\ recorded = None
  /\ handled = FALSE

ExtractIdle == WalkIdle /\ SigIdle /\ DeclIdle

\* no buildIndex call is under way and none has been made
BuildAtRest ==
  /\ parserInitialized = FALSE
  /\ pc = "idle"
  /\ noCache = FALSE
  /\ hash = NoHash
  /\ byLanguage = <<>>
  /\ languageFileCounts = <<>>
  /\ totalFiles = 0
  /\ processed = 0
  /\ allSymbols = <<>>
  /\ langIdx = 0
  /\ batchStart = 0
  /\ outcome = None
  /\ calls = 0
  /\ atCall = NoCall
  /\ seen = <<>>
  /\ failed = {}
  /\ cacheWrite = "none"
  /\ stored = None
  /\ reports = <<>>

BuildIdle == BuildAtRest /\ ExtractIdle

\* a clean repository without a cache file
EnvFixed ==
  /\ vcs = "ok"
  /\ statusTooBig = FALSE
  /\ working = [f \in CodeFiles |-> "v1"]
  /\ cacheFile = NoCacheFile
  /\ envSteps = 0
  /\ extra = 0

InitSearch ==
  /\ symbols \in Streams
  /\ query \in Queries
  /\ options \in OptionSets
  /\ result = <<>>
  /\ searched = FALSE
  /\ IndexIdle
  /\ ExtIdle
  /\ EnvFixed
  /\ BuildIdle

\* index.search(query, options) runs and returns
Search ==
  /\ ~searched
  /\ result' = search(symbols, query, options)
  /\ searched' = TRUE
  /\ UNCHANGED <<symbols, query, options, indexVars>>
  /\ UNCHANGED <<extVars, buildVars>>

NextSearch == Search

SpecSearch == InitSearch /\ [][NextSearch]_vars

(***************************************************************************)
(* The index model: an index over a bounded stream, asked any sequence of  *)
(* search, outline and map calls                                           *)
(***************************************************************************)
\* "s.ts", "s/d/z.ts"
FileR == <<115, 46, 116, 115>>
FileD == <<115, 47, 100, 47, 122, 46, 116, 115>>
NameB == <<66>>
Parens == <<40, 41>>

SymP(n, k, f, e, sig, par) ==
  [name |-> n, kind |-> k, file |-> f, line |-> 1,
   signature |-> sig, parent |-> par, exported |-> e]

\* a class of s/x.ts, a method of it, a method whose parent is not in the
\* file, and functions of t/x.ts, s/d/z.ts and s.ts
IndexPool ==
  { SymP(NameA, "class", FileS, TRUE, None, None),
    SymP(Nameab, "method", FileS, FALSE, Some(Parens), Some(NameA)),
    SymP(Nameba, "method", FileS, FALSE, None, Some(NameB)),
    SymP(Namea, "function", FileT, TRUE, Some(Parens), None),
    SymP(NameA, "function", FileD, FALSE, None, None),
    SymP(Namea, "function", FileR, TRUE, None, None) }

\* s/x.ts with n exported functions "z", "y", ... in that order, followed
\* by a private function and a method of the first
Wide(n) ==
  [i \in 1..n |-> SymP(<<123 - i>>, "function", FileS, TRUE, None, None)]
    \o << SymP(Namea, "function", FileS, FALSE, None, None),
          SymP(Nameab, "method", FileS, FALSE, None, Some(<<122>>)) >>

IndexStreams == SeqsUpTo(IndexPool, 0, MaxIdx) \cup { Wide(n) : n \in 0..MaxWide }

\* the tally of the languages, as a build would hand it over
IndexTally == << <<"python", 1>>, <<"typescript", 2>>, <<"go", 2>> >>

\* the object createCodeIndex returns, with what its closures hold
CodeIndexOf(syms, tally) == Lookups(syms) @@ createCodeIndex(syms, tally)

\* "s", "s/", "t"
DirS == <<115>>
DirSSlash == <<115, 47>>
DirT == <<116>>
OutlinePaths == {FileS, DirS, DirSSlash, DirT}
MapPaths == {None, Some(DirS)}
OutlineDepths == {None, Some(2)}
MapDepths == {None, Some(1), Some(3)}
IndexQueries == {<<>>, Namea}

SearchOptionSets ==
  { NoOptions,
    [kind |-> None, scope |-> None, exported |-> None, limit |-> Some(1)],
    [kind |-> None, scope |-> None, exported |-> Some(TRUE), limit |-> Some(1)] }

InitIndex ==
  /\ symbols \in IndexStreams
  /\ lookups = CodeIndexOf(symbols, IndexTally)
  /\ asked = None
  /\ text = <<>>
  /\ firstCall = None
  /\ query = <<>>
  /\ options = NoOptions
  /\ result = <<>>
  /\ searched = FALSE
  /\ ExtIdle
  /\ EnvFixed
  /\ BuildIdle

\* the first outline or map call made with the default depth is remembered,
\* and whether one or more calls followed it
Remember(call, answer) ==
  firstCall' = IF firstCall = None
               THEN (IF call.op # "search" /\ call.depth = None
                     THEN Some([call |-> call, text |-> answer, after |-> 0])
                     ELSE None)
               ELSE Some([Get(firstCall) EXCEPT !.after = Min(@ + 1, 2)])

\* what the last search returned is kept until the next call
NoSearch ==
  /\ query' = <<>>
  /\ options' = NoOptions
  /\ result' = <<>>
  /\ searched' = FALSE

\* index.search(query, options)
IndexSearch ==
  \E q \in IndexQueries, o \in SearchOptionSets :
    /\ asked' = Some([op |-> "search", path |-> Some(q), depth |-> o.limit])
    /\ query' = q
    /\ options' = o
    /\ result' = search(lookups.symbols, q, o)
    /\ searched' = TRUE
    /\ text' = <<>>
    /\ Remember(Get(asked'), <<>>)
    /\ UNCHANGED <<symbols, lookups>>
    /\ UNCHANGED <<extVars, buildVars>>

\* index.outline(path, depth)
IndexOutline ==
  \E p \in OutlinePaths, d \in OutlineDepths :
    LET call == [op |-> "outline", path |-> Some(p), depth |-> d]
        answer == outline(lookups, p, IF IsSome(d) THEN Get(d) ELSE DefaultOutlineDepth)
    IN /\ asked' = Some(call)
       /\ text' = answer
       /\ Remember(call, answer)
       /\ NoSearch
       /\ UNCHANGED <<symbols, lookups>>
       /\ UNCHANGED <<extVars, buildVars>>

\* a map that sorts the language tally of the index itself
IndexMapSortsTally ==
  \E p \in MapPaths, d \in MapDepths :
    LET call == [op |-> "map", path |-> p, depth |-> d]
        answer == map(lookups, p, IF IsSome(d) THEN Get(d) ELSE DefaultMapDepth)
    IN /\ asked' = Some(call)
       /\ text' = answer
       /\ Remember(call, answer)
       /\ NoSearch
       /\ lookups' = [lookups EXCEPT !.languages = SortByCount(@)]
       /\ UNCHANGED symbols
       /\ UNCHANGED <<extVars, buildVars>>

\* index.map(path, depth)
IndexMap ==
  \E p \in MapPaths, d \in MapDepths :
    LET call == [op |-> "map", path |-> p, depth |-> d]
        answer == map(lookups, p, IF IsSome(d) THEN Get(d) ELSE DefaultMapDepth)
    IN /\ asked' = Some(call)
       /\ text' = answer
       /\ Remember(call, answer)
       /\ NoSearch
       /\ UNCHANGED <<symbols, lookups>>
       /\ UNCHANGED <<extVars, buildVars>>

NextIndex ==
  \/ IndexSearch
  \/ IndexOutline
  \/ IndexMap

SpecIndex == InitIndex /\ [][NextIndex]_vars

(***************************************************************************)
(* walkTree over every tree of up to MaxNodes nodes, one turn of the       *)
(* outer loop at a time                                                    *)
(***************************************************************************)
Trees ==
  UNION { [n : {k},
           parent : { f \in [1..k -> 0..k] : f[1] = 0 /\ \A c \in 2..k : f[c] \in 1..(c - 1) },
           type : [1..k -> NodeTypes]] : k \in 1..MaxNodes }

InitWalk ==
  /\ tree \in Trees
  /\ cursor = 1
  /\ reachedRoot = FALSE
  /\ walked = <<>>
  /\ visits = <<>>
  /\ handlerCalls = <<>>
  /\ SigIdle
  /\ DeclIdle
  /\ symbols = <<>>
  /\ query = <<>>
  /\ options = NoOptions
  /\ result = <<>>
  /\ searched = FALSE
  /\ IndexIdle
  /\ ExtIdle
  /\ EnvFixed
  /\ BuildAtRest

\* one turn of while (!reachedRoot): the handler of the node's type, if
\* any, is called and what it returns is pushed; then the cursor moves
WalkStep ==
  /\ ~reachedRoot
  /\ visits' = visits \o <<cursor>>
  /\ IF HasHandler(tree.type[cursor])
     THEN /\ handlerCalls' = handlerCalls \o <<cursor>>
          /\ walked' = walked \o HandlerResult(tree.type[cursor], cursor)
     ELSE UNCHANGED <<handlerCalls, walked>>
  /\ LET next == Advance(tree, cursor)
     IN IF next = 0
        THEN reachedRoot' = TRUE /\ UNCHANGED cursor
        ELSE cursor' = next /\ UNCHANGED reachedRoot
  /\ UNCHANGED <<tree, sigVars, declVars>>
  /\ UNCHANGED <<searchVars, extVars>>
  /\ UNCHANGED <<envVars, parserInitialized, pc, localVars, outcome, noteVars>>

NextWalk == WalkStep

\* the loop is synchronous code: a turn that can be taken is taken
SpecWalk == InitWalk /\ [][NextWalk]_vars /\ WF_vars(WalkStep)

(***************************************************************************)
(* The signature every extractor stores, for parameter lists of up to      *)
(* MaxText characters                                                      *)
(***************************************************************************)
\* "(bcd...": n characters, the letters in turn
Text(n) == [i \in 1..n |-> IF i = 1 THEN 40 ELSE 97 + (i % 26)]

\* the text with a line break, or with spaces alone, after its first
\* character
Broken(str, gap) == <<Head(str)>> \o gap \o Tail(str)

ParamTexts ==
  { Text(n) : n \in 1..MaxText }
    \cup { Broken(Text(n), gap) : n \in 1..(MaxText - 4), gap \in {<<32, 10, 32, 32>>, <<32, 32>>} }

ReturnTexts == { <<84>>, <<84, 60, 85, 62>> }

DeclNodes ==
  [language : ExtractorLanguages,
   params : {None} \cup { Some(p) : p \in ParamTexts },
   ret : {None} \cup { Some(r) : r \in ReturnTexts }]

InitSig ==
  /\ sigNode \in DeclNodes
  /\ signature = None
  /\ extracted = FALSE
  /\ WalkIdle
  /\ DeclIdle
  /\ symbols = <<>>
  /\ query = <<>>
  /\ options = NoOptions
  /\ result = <<>>
  /\ searched = FALSE
  /\ IndexIdle
  /\ ExtIdle
  /\ EnvFixed
  /\ BuildAtRest

\* a handler computes the signature of the declaration it was called with
StoreSignature ==
  /\ ~extracted
  /\ signature' = SignatureOf(sigNode)
  /\ extracted' = TRUE
  /\ UNCHANGED <<sigNode, walkVars, declVars>>
  /\ UNCHANGED <<searchVars, extVars>>
  /\ UNCHANGED <<envVars, parserInitialized, pc, localVars, outcome, noteVars>>

NextSig == StoreSignature

SpecSig == InitSig /\ [][NextSig]_vars

(***************************************************************************)
(* The declarations a handler is called with                               *)
(***************************************************************************)
\* the node types that enclose a declaration, per language; of these
\* impl_item (its fields are type, trait and body), singleton_class (value
\* and body) and the blocks have no name field
AncestorTypes(language) ==
  CASE language = "python" -> {"class_definition", "function_definition", "block"}
    [] language = "rust" -> {"impl_item", "mod_item", "declaration_list"}
    [] language = "ruby" -> {"class", "module", "singleton_class", "body_statement"}
    [] OTHER -> {}

HasNameField(type) ==
  type \in {"class_definition", "function_definition", "mod_item", "class", "module"}

\* the ancestor at distance d is named "A", "B", "C"
Ancestor(type, d) == [type |-> type, name |-> IF HasNameField(type) THEN Some(<<64 + d>>) ELSE None]

Chains(language) ==
  UNION { { [d \in 1..n |-> Ancestor(types[d], d)] : types \in [1..n -> AncestorTypes(language)] }
          : n \in 0..MaxAncestors }

\* "Server"
TypeServer == <<83, 101, 114, 118, 101, 114>>

\* "(s *Server)", "(s Server)", "(*Server)", "(Server)"
ReceiverText(named, pointer) ==
  <<40>> \o (IF named THEN <<115, 32>> ELSE <<>>) \o (IF pointer THEN <<42>> ELSE <<>>)
    \o TypeServer \o <<41>>

Receivers ==
  { [text |-> ReceiverText(named, pointer), type |-> TypeServer, named |-> named]
      : named \in BOOLEAN, pointer \in BOOLEAN }

\* "a", "_a"
DeclNames == { <<97>>, <<95, 97>> }

DeclInputs ==
  UNION { [language : {l}, name : DeclNames, ancestors : Chains(l), receiver : {None}]
            : l \in {"python", "rust", "ruby"} }
    \cup [language : {"go"}, name : DeclNames, ancestors : {<<>>},
          receiver : { Some(r) : r \in Receivers }]

InitDecl ==
  /\ declNode \in DeclInputs
  /\ recorded = None
  /\ handled = FALSE
  /\ WalkIdle
  /\ SigIdle
  /\ symbols = <<>>
  /\ query = <<>>
  /\ options = NoOptions
  /\ result = <<>>
  /\ searched = FALSE
  /\ IndexIdle
  /\ ExtIdle
  /\ EnvFixed
  /\ BuildAtRest

\* walkTree calls the handler of the declaration
HandleDecl ==
  /\ ~handled
  /\ recorded' = HandlerOf(declNode)
  /\ handled' = TRUE
  /\ UNCHANGED <<declNode, walkVars, sigVars>>
  /\ UNCHANGED <<searchVars, extVars>>
  /\ UNCHANGED <<envVars, parserInitialized, pc, localVars, outcome, noteVars>>

NextDecl == HandleDecl

SpecDecl == InitDecl /\ [][NextDecl]_vars

(***************************************************************************)
(* The extension: session_start, reindex and the three query tools.        *)
(* buildIndex is asynchronous: a handler runs up to its await, the build   *)
(* later resolves or rejects and the handler's continuation runs.  The     *)
(* host emits session_start whenever a session starts and runs /reindex    *)
(* whenever the user asks; nothing in the extension limits either.         *)
(***************************************************************************)
NotGitMessage == "Not a git repository. code_index requires a git repo for file discovery."
StillBuilding == "Index is still building. Try again in a moment."
NoIndexMessage == "No index available. Are you in a git repository?"
AlreadyBuilding == "Index is already building"

Tools == {"code_search", "code_outline", "code_map"}

\* getIndexOrError: the index, or the message of the first cause that applies
getIndexOrError ==
  IF IsSome(index) THEN [ok |-> TRUE, from |-> Get(index), text |-> "", error |-> ""]
  ELSE IF indexing THEN [ok |-> FALSE, from |-> 0, text |-> StillBuilding, error |-> ""]
  ELSE IF IsSome(indexError)
    THEN [ok |-> FALSE, from |-> 0, text |-> "Index failed: ", error |-> Get(indexError)]
  ELSE [ok |-> FALSE, from |-> 0, text |-> NoIndexMessage, error |-> ""]

\* a buildIndex call is made; it is the (started + 1)-th
StartBuild(by) ==
  /\ started < MaxBuilds
  /\ started' = started + 1
  /\ builds' = builds \cup {[id |-> started + 1, by |-> by]}
  /\ overlapped' = (overlapped \/ builds # {})

InitExt ==
  /\ IndexIdle
  /\ ExtIdle
  /\ EnvFixed
  /\ BuildIdle
  /\ symbols = <<>>
  /\ query = <<>>
  /\ options = NoOptions
  /\ result = <<>>
  /\ searched = FALSE

\* pi.on("session_start"), up to the await of buildIndex
SessionStart ==
  /\ indexing' = TRUE
  /\ indexError' = None
  /\ StartBuild("session_start")
  /\ reply' = None
  /\ UNCHANGED <<index, ended>>
  /\ UNCHANGED <<searchVars, buildVars>>

\* the reindex command while a handler is indexing: a warning and nothing else
ReindexRejected ==
  /\ indexing
  /\ reply' = Some([tool |-> "reindex", ok |-> FALSE, from |-> 0,
                      text |-> AlreadyBuilding, error |-> ""])
  /\ UNCHANGED <<index, indexing, indexError, builds, started, ended, overlapped>>
  /\ UNCHANGED <<searchVars, buildVars>>

\* the reindex command otherwise, up to the await of buildIndex
ReindexAccepted ==
  /\ ~indexing
  /\ indexing' = TRUE
  /\ index' = None
  /\ indexError' = None
  /\ StartBuild("reindex")
  /\ reply' = None
  /\ UNCHANGED ended
  /\ UNCHANGED <<searchVars, buildVars>>

\* buildIndex resolves: the awaiting handler stores the index and ends
BuildResolved ==
  \E b \in builds :
    /\ index' = Some(b.id)
    /\ indexing' = FALSE
    /\ builds' = builds \ {b}
    /\ reply' = None
    /\ ended' = "resolved"
    /\ UNCHANGED <<indexError, started, overlapped>>
    /\ UNCHANGED <<searchVars, buildVars>>

\* a catch branch that records the message and leaves the flag set
BuildRejectedKeepsFlag ==
  \E b \in builds :
    /\ indexError' = Some(NotGitMessage)
    /\ builds' = builds \ {b}
    /\ reply' = None
    /\ ended' = "rejected"
    /\ UNCHANGED <<index, indexing, started, overlapped>>
    /\ UNCHANGED <<searchVars, buildVars>>

\* buildIndex rejects: the awaiting handler stores the message and ends
BuildRejected ==
  \E b \in builds :
    /\ indexError' = Some(NotGitMessage)
    /\ indexing' = FALSE
    /\ builds' = builds \ {b}
    /\ reply' = None
    /\ ended' = "rejected"
    /\ UNCHANGED <<index, started, overlapped>>
    /\ UNCHANGED <<searchVars, buildVars>>

\* code_search, code_outline or code_map is executed
Query ==
  \E t \in Tools :
    /\ reply' = Some([tool |-> t] @@ getIndexOrError)
    /\ UNCHANGED <<index, indexing, indexError, builds, started, ended, overlapped>>
    /\ UNCHANGED <<searchVars, buildVars>>

NextExt ==
  \/ SessionStart
  \/ ReindexRejected
  \/ ReindexAccepted
  \/ BuildResolved
  \/ BuildRejected
  \/ Query

SpecExt == InitExt /\ [][NextExt]_vars

\* the await of a handler ends: buildIndex is a promise that settles (its
\* loops run over the languages and the batches of a finite listing, see
\* SpecBuild), and the event loop runs the continuation of a settled promise
AwaitSettles == BuildResolved \/ BuildRejected

SpecExtLive == InitExt /\ [][NextExt]_vars /\ WF_vars(AwaitSettles)

(***************************************************************************)
(* buildIndex, one call after another, in surroundings that may change     *)
(* between its awaits                                                      *)
(***************************************************************************)
InitBuild ==
  /\ vcs \in {"ok", "unborn", "none"}
  /\ statusTooBig \in BOOLEAN
  \* a status that outgrows maxBuffer lists every file of the tree: it is
  \* taken to arise only before the first commit
  /\ statusTooBig => vcs = "unborn"
  /\ working \in { w \in [CodeFiles -> Contents] :
                     Cardinality({ f \in CodeFiles : w[f] # "v1" }) <= MaxDirty }
  /\ cacheFile = NoCacheFile
  /\ envSteps = 0
  /\ extra = 0
  /\ BuildIdle
  /\ ExtIdle
  /\ IndexIdle
  /\ symbols = <<>>
  /\ query = <<>>
  /\ options = NoOptions
  /\ result = <<>>
  /\ searched = FALSE

\* the first language at or after position k that has an extractor; one
\* past the end when there is none
NextLanguage(groups, k) ==
  IF \E j \in k..Len(groups) : IsSome(getExtractor(groups[j].language))
  THEN CHOOSE j \in k..Len(groups) :
         /\ IsSome(getExtractor(groups[j].language))
         /\ \A h \in k..(j - 1) : ~IsSome(getExtractor(groups[h].language))
  ELSE Len(groups) + 1

\* the call returns idx or throws msg
Return(idx, msg) ==
  /\ pc' = "idle"
  /\ outcome' = Some([index |-> idx, error |-> msg])

\* the language loop goes on at position k with syms and proc: it awaits
\* the grammar of the next language that has an extractor or, past the
\* last language, saves the cache and returns the index
Continue(k, syms, proc) ==
  LET next == NextLanguage(byLanguage, k)
  IN /\ allSymbols' = syms
     /\ processed' = proc
     /\ langIdx' = next
     /\ batchStart' = 0
     /\ IF next <= Len(byLanguage)
        THEN /\ pc' = "load"
             /\ UNCHANGED <<outcome, cacheFile, cacheWrite, stored>>
        ELSE \E write \in {"written", "failed", "torn"} :
               /\ cacheWrite' = write
               /\ cacheFile' = saveCache(cacheFile, hash, syms, languageFileCounts, write)
               /\ stored' = IF write = "written"
                            THEN Some([hash |-> hash, symbols |-> syms,
                                       languages |-> languageFileCounts])
                            ELSE stored
               /\ Return(Some(createCodeIndex(syms, languageFileCounts)), None)

\* buildIndex is called and runs to its first await: the hash, the cache
\* and, on a miss, the file discovery
BuildStart ==
  \E nc \in BOOLEAN :
    LET h == computeRepoHash(vcs, statusTooBig, working)
        cached == loadCache(cacheFile, h)
    IN /\ pc = "idle"
       /\ calls < MaxCalls
       /\ calls' = calls + 1
       /\ atCall' = [vcs |-> vcs, cacheFile |-> cacheFile, noCache |-> nc, hash |-> h]
       /\ noCache' = nc
       /\ hash' = h
       /\ seen' = <<>>
       /\ failed' = {}
       /\ cacheWrite' = "none"
       /\ reports' = <<>>
       /\ byLanguage' = <<>>
       /\ languageFileCounts' = <<>>
       /\ totalFiles' = 0
       /\ processed' = 0
       /\ allSymbols' = <<>>
       /\ langIdx' = 0
       /\ batchStart' = 0
       /\ IF ~nc /\ IsSome(cached)
          THEN Return(Some(createCodeIndex(Get(cached).symbols, Get(cached).languages)), None)
          ELSE IF LsFilesFails(vcs)
          THEN Return(None, Some(NotGitMessage))
          ELSE /\ pc' = "init"
               /\ UNCHANGED outcome
       /\ UNCHANGED <<envVars, parserInitialized, stored>>
       /\ UNCHANGED <<searchVars, extVars, extractVars>>

\* ensureParserInit has resolved: the files are grouped by language and the
\* language loop starts
ParserReady ==
  LET grouped == GroupFiles(Listing(extra), 1, [byLanguage |-> <<>>, counts |-> <<>>])
      next == NextLanguage(grouped.byLanguage, 1)
  IN /\ pc = "init"
     /\ parserInitialized' = TRUE
     /\ byLanguage' = grouped.byLanguage
     /\ languageFileCounts' = grouped.counts
     /\ totalFiles' = SumFiles(grouped.byLanguage, 1)
     /\ processed' = 0
     /\ allSymbols' = <<>>
     /\ langIdx' = next
     /\ batchStart' = 0
     /\ IF next <= Len(grouped.byLanguage)
        THEN /\ pc' = "load"
             /\ UNCHANGED <<outcome, cacheFile, cacheWrite, stored>>
        ELSE \E write \in {"written", "failed", "torn"} :
               /\ cacheWrite' = write
               /\ cacheFile' = saveCache(cacheFile, hash, <<>>, grouped.counts, write)
               /\ stored' = IF write = "written"
                            THEN Some([hash |-> hash, symbols |-> <<>>,
                                       languages |-> grouped.counts])
                            ELSE stored
               /\ Return(Some(createCodeIndex(<<>>, grouped.counts)), None)
     /\ UNCHANGED <<vcs, statusTooBig, working, envSteps, extra>>
     /\ UNCHANGED <<noCache, hash, calls, atCall, seen, failed, reports>>
     /\ UNCHANGED <<searchVars, extVars, extractVars>>

\* a batch that takes all the files from position i on
BatchAtRest(files, i) == SubSeq(files, i + 1, Len(files))

\* the files of the batch that starts at position i of the language's list
BatchAt(files, i) == SubSeq(files, i + 1, Min(i + BATCH_SIZE, Len(files)))

\* a grammar failure that ends the language loop: the remaining languages
\* are not indexed
GrammarFailedEndsLoop ==
  /\ pc = "load"
  /\ failed' = failed \cup {byLanguage[langIdx].language}
  /\ Continue(Len(byLanguage) + 1, allSymbols, processed + Len(byLanguage[langIdx].files))
  /\ UNCHANGED <<vcs, statusTooBig, working, envSteps, extra>>
  /\ UNCHANGED <<parserInitialized, noCache, hash, byLanguage, languageFileCounts, totalFiles>>
  /\ UNCHANGED <<calls, atCall, seen, reports>>
  /\ UNCHANGED <<searchVars, extVars, extractVars>>

\* Parser.Language.load has rejected: the language's files count as
\* processed and the loop goes on
GrammarFailed ==
  /\ pc = "load"
  /\ failed' = failed \cup {byLanguage[langIdx].language}
  /\ Continue(langIdx + 1, allSymbols, processed + Len(byLanguage[langIdx].files))
  /\ UNCHANGED <<vcs, statusTooBig, working, envSteps, extra>>
  /\ UNCHANGED <<parserInitialized, noCache, hash, byLanguage, languageFileCounts, totalFiles>>
  /\ UNCHANGED <<calls, atCall, seen, reports>>
  /\ UNCHANGED <<searchVars, extVars, extractVars>>

\* Parser.Language.load has resolved: the first batch is read, parsed and
\* extracted, progress is reported and the timer of the yield is set
GrammarLoaded ==
  /\ pc = "load"
  /\ LET files == byLanguage[langIdx].files
         done == ProcessBatch(BatchAt(files, batchStart), 1,
                              [symbols |-> allSymbols, processed |-> processed,
                               seen |-> seen], WorkingTree(working, extra))
     IN /\ allSymbols' = done.symbols
        /\ processed' = done.processed
        /\ seen' = done.seen
        /\ reports' = reports \o <<[processed |-> done.processed, total |-> totalFiles]>>
        /\ pc' = "yield"
  /\ UNCHANGED <<envVars, parserInitialized, outcome>>
  /\ UNCHANGED <<noCache, hash, byLanguage, languageFileCounts, totalFiles, langIdx, batchStart>>
  /\ UNCHANGED <<calls, atCall, failed, cacheWrite, stored>>
  /\ UNCHANGED <<searchVars, extVars, extractVars>>

\* the timer of the yield has fired: the language's next batch runs or,
\* after its last batch, the language loop goes on
TimerFired ==
  /\ pc = "yield"
  /\ IF batchStart + BATCH_SIZE < Len(byLanguage[langIdx].files)
     THEN LET files == byLanguage[langIdx].files
              done == ProcessBatch(BatchAt(files, batchStart + BATCH_SIZE), 1,
                                   [symbols |-> allSymbols, processed |-> processed,
                                    seen |-> seen], WorkingTree(working, extra))
          IN /\ batchStart' = batchStart + BATCH_SIZE
             /\ allSymbols' = done.symbols
             /\ processed' = done.processed
             /\ seen' = done.seen
             /\ reports' = reports \o <<[processed |-> done.processed, total |-> totalFiles]>>
             /\ pc' = "yield"
             /\ UNCHANGED <<langIdx, outcome, cacheFile, cacheWrite, stored>>
     ELSE /\ Continue(langIdx + 1, allSymbols, processed)
          /\ UNCHANGED <<seen, reports>>
  /\ UNCHANGED <<vcs, statusTooBig, working, envSteps, extra>>
  /\ UNCHANGED <<parserInitialized, noCache, hash, byLanguage, languageFileCounts, totalFiles>>
  /\ UNCHANGED <<calls, atCall, failed>>
  /\ UNCHANGED <<searchVars, extVars, extractVars>>

\* a step of the surroundings.  Steps before the first call lead to states
\* InitBuild already holds, and steps after the last call are seen by no
\* call: neither is taken.  A call reads .git and the cache file in its
\* first step only, so a change of either during a call is the same
\* change after it, and is taken then.
EnvStep ==
  /\ envSteps < MaxEnvSteps
  /\ calls > 0
  /\ calls < MaxCalls \/ pc # "idle"
  /\ envSteps' = envSteps + 1
  /\ UNCHANGED extra
  /\ UNCHANGED <<parserInitialized, pc, localVars, outcome, noteVars>>
  /\ UNCHANGED <<searchVars, extVars, extractVars>>

\* a file of the working tree is edited, deleted or restored
EditFile ==
  \E f \in CodeFiles, c \in Contents :
    /\ c # working[f]
    /\ working' = [working EXCEPT ![f] = c]
    /\ EnvStep
    /\ UNCHANGED <<vcs, statusTooBig, cacheFile>>

\* the cache file is deleted, made unreadable, overwritten with text that
\* is not JSON, or replaced by the record of another format version
TouchCache ==
  /\ pc = "idle"
  /\ \/ cacheFile' = NoCacheFile
     \/ cacheFile' = [state |-> "unreadable", data |-> NoData]
     \/ cacheFile' = [state |-> "malformed", data |-> NoData]
     \/ /\ cacheFile.state = "json"
        /\ cacheFile' = [cacheFile EXCEPT !.data.version = 0]
  /\ cacheFile' # cacheFile
  /\ EnvStep
  /\ UNCHANGED <<vcs, statusTooBig, working>>

\* the .git directory goes away
LoseRepository ==
  /\ pc = "idle"
  /\ vcs # "none"
  /\ vcs' = "none"
  /\ EnvStep
  /\ UNCHANGED <<statusTooBig, working, cacheFile>>

NextBuild ==
  \/ BuildStart
  \/ ParserReady
  \/ GrammarFailed
  \/ GrammarLoaded
  \/ TimerFired
  \/ EditFile
  \/ TouchCache
  \/ LoseRepository

SpecBuild == InitBuild /\ [][NextBuild]_vars

(***************************************************************************)
(* Builds of a clean repository of up to MaxExtra further files            *)
(***************************************************************************)
InitBatch ==
  /\ extra \in 0..MaxExtra
  /\ vcs = "ok"
  /\ statusTooBig = FALSE
  /\ working = [f \in CodeFiles |-> "v1"]
  /\ cacheFile = NoCacheFile
  /\ envSteps = 0
  /\ BuildIdle
  /\ ExtIdle
  /\ IndexIdle
  /\ symbols = <<>>
  /\ query = <<>>
  /\ options = NoOptions
  /\ result = <<>>
  /\ searched = FALSE

NextBatch ==
  \/ BuildStart
  \/ ParserReady
  \/ GrammarFailed
  \/ GrammarLoaded
  \/ TimerFired

SpecBatch == InitBatch /\ [][NextBatch]_vars

(***************************************************************************)
(* Search: the properties of a search, stated over the stream itself       *)
(***************************************************************************)
Idx == 1..Len(symbols)
Limit == LimitOf(options)
ResultSet == { result[i] : i \in 1..Len(result) }

\* s satisfies every filter that was given
Passes(s) ==
  /\ IsSome(options.kind) => s.kind = Get(options.kind)
  /\ IsSome(options.scope) => startsWith(s.file, Get(options.scope))
  /\ IsSome(options.exported) => s.exported = Get(options.exported)

IsExact(s) == s.name = query
IsCaseInsensitive(s) == toLowerCase(s.name) = toLowerCase(query)
IsPrefix(s) == startsWith(toLowerCase(s.name), toLowerCase(query))
IsSubstring(s) == includes(toLowerCase(s.name), toLowerCase(query))

TierMatch(k, s) ==
  CASE k = 1 -> IsExact(s)
    [] k = 2 -> IsCaseInsensitive(s)
    [] k = 3 -> IsPrefix(s)
    [] OTHER -> IsSubstring(s)

\* the scan of tier k reaches the name of symbols[i]: at most 3 x limit
\* candidates lie under the names sorted before it
Gathered(k, i) ==
  k \in {3, 4} =>
    Cardinality({ j \in Idx : /\ TierMatch(k, symbols[j])
                              /\ StrLess(symbols[j].name, symbols[i].name) })
      <= 3 * Limit

\* the stream positions tier k leaves after the filters
Post(k) ==
  { i \in Idx : TierMatch(k, symbols[i]) /\ Gathered(k, i) /\ Passes(symbols[i]) }

\* position i comes before position j in the candidate list of tier k
Before(k, i, j) ==
  IF k \in {1, 2} \/ symbols[i].name = symbols[j].name THEN i < j
  ELSE StrLess(symbols[i].name, symbols[j].name)

\* result is the positions P of a tier in candidate order, cut to the limit
IsTierResult(k, P) ==
  /\ Len(result) = Min(Limit, Cardinality(P))
  /\ \A i \in P :
       LET rank == Cardinality({ j \in P : Before(k, j, i) }) + 1
       IN rank <= Len(result) => result[rank] = symbols[i]

Cascade ==
  LET P == [k \in 1..4 |-> Post(k)]
  IN IF \E k \in 1..4 : P[k] # {}
     THEN LET first == CHOOSE k \in 1..4 : P[k] # {} /\ \A h \in 1..(k - 1) : P[h] = {}
          IN IsTierResult(first, P[first])
     ELSE result = <<>>

ExactFailsExported ==
  /\ IsSome(options.exported)
  /\ \E i \in Idx : IsExact(symbols[i]) /\ symbols[i].exported # Get(options.exported)

PrefixResult ==
  result # <<>> /\ \A r \in ResultSet : IsPrefix(r) /\ Passes(r)

\* C1 as stated: the first non-empty post-filter tier is returned, and an
\* exact match failing the exported filter together with any passing
\* prefix match yields that prefix match, never an empty result.
C1_Original ==
  searched =>
    /\ Cascade
    /\ (ExactFailsExported /\ \E i \in Idx : IsPrefix(symbols[i]) /\ Passes(symbols[i]))
         => PrefixResult

\* C1 (amended): search returns the filtered, limit-truncated candidates of
\* the first tier (exact, case-insensitive, prefix, substring) that has any
\* after the filters; and for limit >= 1, when an exact match fails the
\* exported filter and a passing symbol is a case-insensitive exact match
\* or a prefix match gathered before the scan stops at more than 3 x limit
\* candidates, the result is non-empty and made of passing prefix matches.
C1_TierCascade ==
  searched =>
    /\ Cascade
    /\ (/\ Limit >= 1
        /\ ExactFailsExported
        /\ \E i \in Idx : /\ Passes(symbols[i])
                           /\ \/ IsCaseInsensitive(symbols[i])
                              \/ IsPrefix(symbols[i]) /\ Gathered(3, i))
         => PrefixResult

\* an exact match failed the exported filter and a prefix-tier symbol that
\* is no case-insensitive exact match was returned
C1_Witness ==
  /\ searched
  /\ ExactFailsExported
  /\ result # <<>>
  /\ ~IsCaseInsensitive(result[1])
  /\ IsPrefix(result[1])

NoFilters ==
  options.kind = None /\ options.scope = None /\ options.exported = None

\* C2: without filters and with limit >= 1, an exact name match keeps
\* everything else out of the result, a prefix match keeps substring-only
\* matches out, and substring-only matches appear only when nothing
\* matches exactly, case-insensitively or by prefix.
C2_TierOrdering ==
  (searched /\ NoFilters /\ Limit >= 1) =>
    /\ (\E i \in Idx : IsExact(symbols[i]))
         => (result # <<>> /\ \A r \in ResultSet : IsExact(r))
    /\ (\E i \in Idx : IsPrefix(symbols[i]))
         => (result # <<>> /\ \A r \in ResultSet : IsPrefix(r))
    /\ (\E r \in ResultSet : ~IsPrefix(r))
         => \A i \in Idx : ~IsPrefix(symbols[i])

\* the stream holds an exact match next to another prefix match, and an
\* unfiltered search has returned
C2_Witness ==
  /\ searched /\ NoFilters /\ Limit >= 1
  /\ \E i, j \in Idx : /\ IsExact(symbols[i])
                        /\ ~IsExact(symbols[j]) /\ IsPrefix(symbols[j])
  /\ result # <<>>

\* C3: a search with limit >= 0 returns at most limit symbols, each of
\* which satisfies every filter given.
C3_FiltersAreHard ==
  (searched /\ Limit >= 0) =>
    /\ Len(result) <= Limit
    /\ \A r \in ResultSet : Passes(r)

\* a filtered search that dropped a name match and filled its limit
C3_Witness ==
  /\ searched
  /\ ~NoFilters
  /\ \E i \in Idx : IsSubstring(symbols[i]) /\ ~Passes(symbols[i])
  /\ result # <<>>
  /\ Len(result) = Limit
  /\ Cardinality({ i \in Idx : IsSubstring(symbols[i]) /\ Passes(symbols[i]) }) > Limit

(***************************************************************************)
(* The extension's builds                                                  *)
(***************************************************************************)
\* C4: at most one buildIndex call is in flight; a request that arrives
\* during a build starts no second one.
C4_OneBuildInFlight == Cardinality(builds) <= 1

\* C5: while the build of an accepted reindex has not completed, a query
\* answers "still building" and never with results.
C5_ReindexHidesIndex ==
  (IsSome(reply) /\ Get(reply).tool \in Tools /\ \E b \in builds : b.by = "reindex")
    => (Get(reply).text = StillBuilding /\ ~Get(reply).ok)

\* a query tool has just answered
Answered == IsSome(reply) /\ Get(reply).tool \in Tools
Answer == Get(reply)

\* C11: once the build that completed last has thrown, and no build is
\* under way, every query answers "Index failed: ..." with the message
\* thrown, never with results; before any build was started a query
\* answers "No index available".  Stated of the runs in which the builds
\* came one after the other.
C11_FailedIsUnavailable ==
  (Answered /\ ~overlapped) =>
    /\ (ended = "rejected" /\ builds = {}) =>
         (~Answer.ok /\ Answer.text = "Index failed: " /\ Answer.error = NotGitMessage)
    /\ started = 0 => (~Answer.ok /\ Answer.text = NoIndexMessage)

(***************************************************************************)
(* buildIndex: cache, errors and isolation                                 *)
(***************************************************************************)
\* the last call has returned or thrown
Finished == pc = "idle" /\ calls > 0 /\ IsSome(outcome)
Returned == Get(outcome).index
Thrown == Get(outcome).error

\* the call returned the index of the cache record: it read no file and
\* wrote no cache
UsedCache == Finished /\ IsSome(Returned) /\ cacheWrite = "none" /\ seen = <<>>
\* the call returned an index it built from the files
BuiltFresh == Finished /\ IsSome(Returned) /\ cacheWrite # "none"

\* the cache file the call found reads, parses and carries the current
\* version and the hash the call computed, and noCache was not set
Usable ==
  /\ ~atCall.noCache
  /\ atCall.cacheFile.state = "json"
  /\ atCall.cacheFile.data.version = CACHE_VERSION
  /\ atCall.cacheFile.data.hash = atCall.hash

\* a file read with content c yields its extractor's symbols
Clean(c) == Readable(c) /\ SourceLength(c) <= SizeCeiling /\ ~ParseThrows(c)

\* the languages that have an extractor and whose grammar loaded, and the
\* listed files of a set of languages, in listing order
LanguageOf(file) == Get(getLanguageConfig(extname(file))).language
Indexable(file) ==
  /\ IsSome(getLanguageConfig(extname(file)))
  /\ IsSome(getExtractor(LanguageOf(file)))
SymbolsOfFile(syms, file) == SelectSeq(syms, LAMBDA s : s.file = file)
ReadsOf(file) == { i \in 1..Len(seen) : seen[i].file = file }

\* what the files read give, in the order they were read
RECURSIVE ExpectedFrom(_, _)
ExpectedFrom(log, i) ==
  IF i > Len(log) THEN <<>>
  ELSE (IF Clean(log[i].content) THEN Extract(log[i].file, log[i].content) ELSE <<>>)
         \o ExpectedFrom(log, i + 1)

\* C6: the cache record is used only when it reads, parses and carries
\* the current version and the freshly computed hash and noCache is not
\* set; in every other case, file discovery succeeding, the call rebuilds
\* from the files and returns without an error, and a cache write that
\* fails leaves the call returning the index of the files it read.
C6_CachePolicy ==
  Finished =>
    /\ UsedCache => Usable
    /\ (~Usable /\ ~LsFilesFails(atCall.vcs)) =>
         /\ BuiltFresh
         /\ Thrown = None
         /\ Get(Returned).symbols = ExpectedFrom(seen, 1)
         /\ Get(Returned).languages = languageFileCounts
         /\ \A f \in CodeFiles : (LanguageOf(f) \notin failed) => ReadsOf(f) # {}

\* a stale cache record was found, the files were read again and the
\* write of the new record failed
C6_Witness ==
  /\ Finished
  /\ ~atCall.noCache
  /\ atCall.cacheFile.state = "json"
  /\ atCall.cacheFile.data.version = CACHE_VERSION
  /\ atCall.cacheFile.data.hash # atCall.hash
  /\ cacheWrite = "failed"
  /\ BuiltFresh
  /\ Get(Returned).symbols # <<>>

\* C7: a call that finds the record a full build stored, under the hash
\* it computes, returns the stream that build produced (same symbols, same
\* order, same fields), its language tally, and so the same symbolCount,
\* fileCount and search answers.
C7_CacheRoundTrip ==
  (Finished /\ Usable) =>
    /\ IsSome(stored)
    /\ Get(stored).hash = atCall.hash
    /\ IsSome(Returned)
    /\ Thrown = None
    /\ Get(Returned).symbols = Get(stored).symbols
    /\ Get(Returned).languages = Get(stored).languages
    /\ Get(Returned).symbolCount = Len(Get(stored).symbols)
    /\ Get(Returned).fileCount = Cardinality(FilesOf(Get(stored).symbols))
    /\ \A q \in Queries :
         search(Get(Returned).symbols, q, NoOptions) = search(Get(stored).symbols, q, NoOptions)

\* the second call returned a stored stream that holds a symbol without a
\* signature and a symbol with a parent
C7_Witness ==
  /\ Finished /\ Usable /\ calls = 2
  /\ UsedCache
  /\ \E i, j \in 1..Len(Get(Returned).symbols) :
       /\ Get(Returned).symbols[i].signature = None
       /\ IsSome(Get(Returned).symbols[j].parent)

\* C8: a call made where there is no repository throws "Not a git
\* repository" and returns no index, fresh or cached.
C8_NoRepositoryNoIndex ==
  (Finished /\ atCall.vcs = "none") =>
    (Returned = None /\ Thrown = Some(NotGitMessage))

\* C9: in a full build a file that cannot be read, throws in the parser or
\* extractor, or has more than 500,000 characters gives no symbol, every
\* other file read gives exactly what its extractor returns, and the build
\* returns its index having read every file of every loaded language.
C9_FileIsolation ==
  (Finished /\ cacheWrite # "none") =>
    /\ IsSome(Returned)
    /\ Thrown = None
    /\ \A f \in CodeFiles :
         (Indexable(f) /\ LanguageOf(f) \notin failed) =>
           /\ Cardinality(ReadsOf(f)) = 1
           /\ \A i \in ReadsOf(f) :
                SymbolsOfFile(Get(Returned).symbols, f) =
                  IF Clean(seen[i].content) THEN Extract(f, seen[i].content) ELSE <<>>

\* a file that failed was read before a file of the same language that
\* gave its symbols
C9_Witness ==
  /\ BuiltFresh
  /\ \E i, j \in 1..Len(seen) :
       /\ i < j
       /\ ~Clean(seen[i].content)
       /\ Clean(seen[j].content)
       /\ LanguageOf(seen[i].file) = LanguageOf(seen[j].file)
       /\ SymbolsOfFile(Get(Returned).symbols, seen[j].file) # <<>>

\* the number of listed files whose language has an extractor
RECURSIVE CountIndexable(_, _)
CountIndexable(files, i) ==
  IF i > Len(files) THEN 0
  ELSE (IF Indexable(files[i]) THEN 1 ELSE 0) + CountIndexable(files, i + 1)

\* C10: when the grammar of a language does not load, the files of that
\* language are not read and give no symbol but count as processed, the
\* files of every other language with an extractor are read and indexed,
\* and the call returns an index.
C10_GrammarFailureSkipsLanguage ==
  (Finished /\ cacheWrite # "none") =>
    /\ IsSome(Returned)
    /\ Thrown = None
    /\ processed = CountIndexable(ListedFiles, 1)
    /\ \A f \in CodeFiles :
         IF LanguageOf(f) \in failed
         THEN ReadsOf(f) = {} /\ SymbolsOfFile(Get(Returned).symbols, f) = <<>>
         ELSE /\ ReadsOf(f) # {}
              /\ \A i \in ReadsOf(f) :
                   Clean(seen[i].content) =>
                     SymbolsOfFile(Get(Returned).symbols, f) = Extract(f, seen[i].content)

\* the grammar of the first language failed and a file of a later language
\* is in the index
C10_Witness ==
  /\ BuiltFresh
  /\ failed = {"typescript"}
  /\ SymbolsOfFile(Get(Returned).symbols, FileP) # <<>>
  /\ processed = 3

(***************************************************************************)
(* The counts of an index                                                  *)
(***************************************************************************)
\* the number of symbols the extractor returned, summed over the files read
RECURSIVE SumExtracted(_, _)
SumExtracted(log, i) ==
  IF i > Len(log) THEN 0
  ELSE (IF Clean(log[i].content) THEN Len(Extract(log[i].file, log[i].content)) ELSE 0)
         + SumExtracted(log, i + 1)

\* C12: symbolCount of an index is the length of the stream it was built
\* from (after a full build, the number of symbols the extractor returned
\* summed over the files), and fileCount is the number of distinct file
\* paths that occur in a symbol of the stream.
C12_Counts ==
  (Finished /\ IsSome(Returned)) =>
    /\ Get(Returned).symbolCount = Len(Get(Returned).symbols)
    /\ BuiltFresh => Get(Returned).symbolCount = SumExtracted(seen, 1)
    /\ Get(Returned).fileCount =
         Cardinality({ f \in CodeFiles :
                         \E i \in 1..Len(Get(Returned).symbols) :
                           Get(Returned).symbols[i].file = f })
    /\ \A i \in 1..Len(Get(Returned).symbols) : Get(Returned).symbols[i].file \in CodeFiles

\* a full build read three files, one of which gave no symbol and one of
\* which gave two
C12_Witness ==
  /\ BuiltFresh
  /\ Len(seen) = 3
  /\ Get(Returned).fileCount = 2
  /\ Get(Returned).symbolCount = 3

(***************************************************************************)
(* The index: its buckets and its queries                                  *)
(***************************************************************************)
Stream == lookups.symbols

\* the key of a symbol in the Map named by
KeyOf(by, x) ==
  CASE by = "file" -> x.file
    [] by = "name" -> x.name
    [] OTHER -> toLowerCase(x.name)

\* the buckets of m are keyed by distinct keys, every symbol of the stream
\* has the bucket of its key, and the bucket of a key is the symbols of
\* the stream with that key, each occurrence once, in stream order
Buckets(m, by) ==
  /\ \A i, j \in 1..Len(m) : m[i][1] = m[j][1] => i = j
  /\ \A i \in 1..Len(Stream) : MapHas(m, KeyOf(by, Stream[i]))
  /\ \A i \in 1..Len(m) :
       /\ m[i][2] # <<>>
       /\ m[i][2] = SelectSeq(Stream, LAMBDA x : KeyOf(by, x) = m[i][1])

RECURSIVE SumBuckets(_, _)
SumBuckets(m, i) == IF i > Len(m) THEN 0 ELSE Len(m[i][2]) + SumBuckets(m, i + 1)


\* C13: every symbol occurrence of the stream is once in the file bucket
\* of its file and in no other, once in the name bucket of its name and in
\* no other, no bucket holds anything else, and every bucket (by name, by
\* case-folded name, by file) keeps the order of the stream.
C13_Buckets ==
  /\ Buckets(lookups.byFile, "file")
  /\ Buckets(lookups.byName, "name")
  /\ Buckets(lookups.byNameLower, "lower")
  /\ SumBuckets(lookups.byFile, 1) = Len(Stream)
  /\ SumBuckets(lookups.byName, 1) = Len(Stream)

\* the stream holds the same symbol twice and two names that fold to one
C13_Witness ==
  /\ \E i, j \in 1..Len(Stream) : i < j /\ Stream[i] = Stream[j]
  /\ \E i \in 1..Len(lookups.byNameLower) :
       \E a, b \in 1..Len(lookups.byNameLower[i][2]) :
         lookups.byNameLower[i][2][a].name # lookups.byNameLower[i][2][b].name
  /\ Len(lookups.byFile) > 1

RECURSIVE PreOrderFrom(_, _, _)
PreOrderFrom(t, node, c) ==
  IF c > t.n THEN <<>>
  ELSE IF t.parent[c] = node
       THEN <<c>> \o PreOrderFrom(t, c, c + 1) \o PreOrderFrom(t, node, c + 1)
       ELSE PreOrderFrom(t, node, c + 1)

PreOrder(t) == <<1>> \o PreOrderFrom(t, 1, 2)

RECURSIVE ResultsOf(_, _)
ResultsOf(t, nodes) ==
  IF nodes = <<>> THEN <<>>
  ELSE HandlerResult(t.type[Head(nodes)], Head(nodes)) \o ResultsOf(t, Tail(nodes))

Handled(t, nodes) ==
  LET IsHandled(node) == HasHandler(t.type[node]) IN SelectSeq(nodes, IsHandled)

WalkSafe ==
  /\ Len(visits) <= Len(PreOrder(tree))
  /\ visits = SubSeq(PreOrder(tree), 1, Len(visits))
  /\ handlerCalls = Handled(tree, visits)
  /\ walked = ResultsOf(tree, visits)
  /\ reachedRoot => visits = PreOrder(tree)

\* C15: walkTree ends on every tree; the nodes the loop stands on are the
\* nodes of the tree in depth-first pre-order, each once, whatever the
\* handlers return; a handler is called once for each visited node whose
\* type has one, and the symbols returned are the handlers' results in the
\* order of the visits.
C15_WalkTree == []WalkSafe /\ <>reachedRoot

\* a finished walk that climbed two levels to reach a sibling, with a
\* handler that returned an array, one that returned null and a node
\* without a handler
C15_Witness ==
  /\ reachedRoot
  /\ tree.n = 5
  /\ tree.parent = <<0, 1, 2, 3, 1>>
  /\ tree.type = <<"other", "two", "null", "one", "one">>
  /\ Len(walked) = 4

(***************************************************************************)
(* outline of a file                                                       *)
(***************************************************************************)
AskedOutline(path) ==
  /\ IsSome(asked)
  /\ Get(asked).op = "outline"
  /\ Get(asked).path = Some(path)

\* the line a symbol is to be shown by
LineOf(sym) == IF Truthy(sym.parent) THEN ChildLine(sym) ELSE TopLine(sym)

Count(seq, x) == Cardinality({ i \in 1..Len(seq) : seq[i] = x })

\* the top-level line a line of the text stands beneath
Above(lines, i) ==
  LET tops == { j \in 1..(i - 1) : lines[j].t = "top" }
  IN IF tops = {} THEN 0 ELSE CHOOSE j \in tops : \A k \in tops : k <= j

\* C16: the outline of a file of the index shows every symbol recorded for
\* the file exactly once: the top-level symbols in source order with their
\* signature and exported marker, every parented symbol as a child line
\* beneath the top-level symbol whose name is its parent.
C16_FileOutlineComplete ==
  (AskedOutline(FileS) /\ MapHas(lookups.byFile, FileS)) =>
    LET syms == MapGet(lookups.byFile, FileS)
        shown == Tail(text)
    IN /\ Head(text) = [t |-> "path", path |-> FileS]
       /\ Len(shown) = Len(syms)
       /\ \A i \in 1..Len(syms) : Count(shown, LineOf(syms[i])) = Count(syms, syms[i])
       /\ SelectSeq(shown, LAMBDA l : l.t = "top")
            = SelectSeq([i \in 1..Len(syms) |-> LineOf(syms[i])], LAMBDA l : l.t = "top")
       /\ \A i \in 1..Len(shown) :
            shown[i].t = "child" =>
              /\ Above(shown, i) # 0
              /\ \E k \in 1..Len(syms) :
                   /\ LineOf(syms[k]) = shown[i]
                   /\ syms[k].parent = Some(shown[Above(shown, i)].name)

(***************************************************************************)
(* outline of a directory                                                  *)
(***************************************************************************)
\* the segments of a relative path: one more than its separators
Segments(rel) == 1 + Cardinality({ i \in 1..Len(rel) : rel[i] = Slash })

Begins(str, pre) == Len(pre) <= Len(str) /\ SubSeq(str, 1, Len(pre)) = pre

\* the names of the exported top-level symbols of a file, in stream order
ExportedTop(syms) ==
  NamesOf(SelectSeq(syms, LAMBDA x : x.parent \in {None, Some(<<>>)} /\ x.exported))

\* the line the specification gives a file of a directory outline
ExpectedDirLine(rel, syms) ==
  LET names == ExportedTop(syms)
      n == Len(names)
  IN IF n > 8 THEN [t |-> "names", rel |-> rel, names |-> SubSeq(names, 1, 8), more |-> n - 8]
     ELSE IF n >= 1 THEN [t |-> "names", rel |-> rel, names |-> names, more |-> 0]
     ELSE [t |-> "count", rel |-> rel, count |-> Len(syms), plural |-> Len(syms) # 1]

\* C17: in the outline of a directory a file with n exported top-level
\* symbols shows its first 8 names and "+(n-8) more" when n > 8, all its
\* names when 1 <= n <= 8, and the count of all its symbols when n = 0; the
\* files listed are exactly those whose path starts with the directory path
\* and whose relative path has at most depth segments, in ascending order
\* of their paths.
C17_DirectoryOutline ==
  \A p \in OutlinePaths :
    (AskedOutline(p) /\ ~MapHas(lookups.byFile, p)) =>
      LET dir == IF p # <<>> /\ p[Len(p)] = Slash THEN p ELSE p \o <<Slash>>
          depth == IF IsSome(Get(asked).depth) THEN Get(asked).depth[1] ELSE 1
          listed == { f \in { lookups.byFile[i][1] : i \in 1..Len(lookups.byFile) } :
                        /\ Begins(f, dir)
                        /\ Segments(SubSeq(f, Len(dir) + 1, Len(f))) <= depth }
          shown == SelectSeq(text, LAMBDA l : l.t \in {"names", "count"})
      IN /\ Len(shown) = Cardinality(listed)
         /\ { dir \o shown[i].rel : i \in 1..Len(shown) } = listed
         /\ \A i \in 1..(Len(shown) - 1) : StrLess(shown[i].rel, shown[i + 1].rel)
         /\ \A i \in 1..Len(shown) :
              shown[i] = ExpectedDirLine(shown[i].rel, MapGet(lookups.byFile, dir \o shown[i].rel))

\* ten exported names: eight are shown, followed by "+2 more"
C17_Witness ==
  /\ symbols = Wide(10)
  /\ AskedOutline(DirS)
  /\ Len(text) = 2
  /\ text[2].t = "names"
  /\ Len(text[2].names) = 8
  /\ text[2].more = 2

(***************************************************************************)
(* signatures                                                              *)
(***************************************************************************)
\* the text a declaration renders before any cut: the parameters, the
\* separator of the language and the return type; ruby shows the
\* parameters alone, with every line break and the blanks around it
\* turned into one space
Separator(language) ==
  CASE language \in {"python", "rust"} -> " -> "
    [] language = "go" -> " "
    [] OTHER -> ": "

SeparatorUnits(language) ==
  CASE Separator(language) = " -> " -> <<32, 45, 62, 32>>
    [] Separator(language) = " " -> <<32>>
    [] OTHER -> <<58, 32>>

OneLine(str) ==
  LET blank(i) == str[i] \in {9, 10, 13, 32}
      \* the blanks of a run with a line break in it
      inBreak(i) == /\ blank(i)
                    /\ \E k \in 1..Len(str) :
                         /\ str[k] = 10
                         /\ \A m \in Min(i, k)..Max(i, k) : blank(m)
      first(i) == inBreak(i) /\ (i = 1 \/ ~blank(i - 1))
      keep == { i \in 1..Len(str) : ~inBreak(i) \/ first(i) }
      at(j) == CHOOSE i \in keep : Cardinality({ k \in keep : k <= i }) = j
  IN [j \in 1..Cardinality(keep) |-> IF inBreak(at(j)) THEN 32 ELSE str[at(j)]]

Rendered(node) ==
  IF node.language = "ruby" THEN OneLine(Get(node.params))
  ELSE Get(node.params)
         \o (IF IsSome(node.ret) THEN SeparatorUnits(node.language) \o Get(node.ret) ELSE <<>>)

\* C18: a stored signature has at most 120 characters; a rendered text of
\* more than 120 characters is stored as its first 117 characters followed
\* by "...", and a text of 120 characters or fewer is stored as it is.
C18_SignatureBound ==
  (extracted /\ IsSome(sigNode.params)) =>
    LET full == Rendered(sigNode)
    IN /\ IsSome(signature)
       /\ Len(Get(signature)) <= 120
       /\ Len(full) > 120 => Get(signature) = SubSeq(full, 1, 117) \o <<46, 46, 46>>
       /\ Len(full) <= 120 => Get(signature) = full

\* a text of 121 characters made by the return type of a python function
C18_Witness ==
  /\ extracted
  /\ sigNode.language = "python"
  /\ IsSome(sigNode.params)
  /\ Len(Get(sigNode.params)) = 116
  /\ sigNode.ret = Some(<<84>>)
  /\ Len(Get(signature)) = 120
  /\ SubSeq(Get(signature), 117, 120) = <<32, 46, 46, 46>>

(***************************************************************************)
(* batches                                                                 *)
(***************************************************************************)
\* the reads of the language under way that the build has made
ReadOfLanguage(files) ==
  Cardinality({ i \in 1..Len(seen) : \E k \in 1..Len(files) : files[k] = seen[i].file })

\* a step in which files are read and parsed
BatchStep == Len(seen') > Len(seen)

\* C19: in a full build the files of a language are read in consecutive
\* batches of at most 100 files, each batch in one step that begins after
\* the grammar has loaded or after a yield and ends with a progress report
\* and the build waiting on the timer of its yield: no step reads more
\* than 100 files, and no file of the next batch is read before the timer
\* has fired.
C19_BatchesAndYields ==
  [][BatchStep =>
       LET new == SubSeq(seen', Len(seen) + 1, Len(seen'))
           files == byLanguage[langIdx].files
           k == ReadOfLanguage(files)
       IN /\ pc \in {"load", "yield"}
          /\ SubSeq(seen', 1, Len(seen)) = seen
          /\ Len(new) <= 100
          /\ Len(new) < 100 => k + Len(new) = Len(files)
          /\ [i \in 1..Len(new) |-> new[i].file] = SubSeq(files, k + 1, k + Len(new))
          /\ reports' = reports \o <<[processed |-> processed', total |-> totalFiles]>>
          /\ pc' = "yield"]_vars

\* the second batch of a language of 101 files has run, after a yield
C19_Witness ==
  /\ extra = 99
  /\ pc = "yield"
  /\ batchStart = 100
  /\ Len(seen) = 101
  /\ Len(reports) = 2

(***************************************************************************)
(* from a search result to the outline of its file                         *)
(***************************************************************************)
\* C20: on an index of at least one symbol the search for the empty query
\* without filters and with a limit of 1 or more returns a symbol; the
\* file of every symbol a search returns is a key of byFile, and its
\* outline is the outline of that file: the path on the first line, then
\* lines of symbols of the file, never the listing of a directory.
C20_SearchFeedsOutline ==
  searched =>
    /\ (/\ Len(lookups.symbols) >= 1
        /\ query = <<>>
        /\ options.kind = None /\ options.scope = None /\ options.exported = None
        /\ (IsSome(options.limit) => Get(options.limit) >= 1)) => Len(result) >= 1
    /\ \A i \in 1..Len(result) :
         LET file == result[i].file
             lines == outline(lookups, file, DefaultOutlineDepth)
         IN /\ \E k \in 1..Len(lookups.byFile) : lookups.byFile[k][1] = file
            /\ Head(lines) = [t |-> "path", path |-> file]
            /\ \A j \in 2..Len(lines) :
                 /\ lines[j].t \in {"top", "child"}
                 /\ \E m \in 1..Len(lookups.symbols) :
                      /\ lookups.symbols[m].file = file
                      /\ LineOf(lookups.symbols[m]) = lines[j]

\* the empty query with a limit of 1 on an index of three symbols returns
\* the first, a class of s/x.ts
C20_Witness ==
  /\ searched
  /\ query = <<>>
  /\ options = [kind |-> None, scope |-> None, exported |-> None, limit |-> Some(1)]
  /\ Len(lookups.symbols) = 3
  /\ Len(result) = 1
  /\ result[1].file = FileS
  /\ result[1].kind = "class"

(***************************************************************************)
(* parents of functions and methods                                        *)
(***************************************************************************)
\* the class-like node types of the language
ClassLike(language) ==
  CASE language = "python" -> {"class_definition"}
    [] language = "rust" -> {"impl_item"}
    [] OTHER -> {"class", "module", "singleton_class"}

Enclosing(node) ==
  { d \in 1..Len(node.ancestors) : node.ancestors[d].type \in ClassLike(node.language) }

\* C21: a python function_definition, rust function_item or ruby method
\* that is recorded has kind "method" and a parent exactly when one of its
\* ancestors is of a class-like type of its language, the parent being the
\* name of the nearest of these; otherwise it has kind "function" and no
\* parent.
C21_MethodByEnclosure ==
  (handled /\ declNode.language # "go" /\ IsSome(recorded)) =>
    LET sym == Get(recorded)
        near == CHOOSE d \in Enclosing(declNode) : \A e \in Enclosing(declNode) : d <= e
    IN IF Enclosing(declNode) # {}
       THEN /\ sym.kind = "method"
            /\ IsSome(sym.parent)
            /\ IsSome(declNode.ancestors[near].name) => sym.parent = declNode.ancestors[near].name
       ELSE sym.kind = "function" /\ sym.parent = None

\* C23: a Go method with a receiver is recorded with the name of the
\* receiver's type as its parent, whether the receiver is named or not and
\* whether it is a pointer or a value; never with the name of the receiver
\* variable.
C23_ReceiverType ==
  (handled /\ declNode.language = "go" /\ IsSome(recorded)) =>
    Get(recorded).parent = Some(Get(declNode.receiver).type)

(***************************************************************************)
(* the over-collection bound                                               *)
(***************************************************************************)
\* what the scan of a tier has gathered when it ends
ScanOf(tier) ==
  ScanNames(symbols, sortedNames(symbols), 1, <<>>, tier, toLowerCase(query), LimitOf(options))

\* the search went on to the prefix scan, and to the substring scan
ReachedPrefix ==
  /\ applyFilters(byName(symbols, query), options) = <<>>
  /\ applyFilters(byNameLower(symbols, toLowerCase(query)), options) = <<>>
ReachedSubstring ==
  /\ ReachedPrefix
  /\ applyFilters(ScanOf("prefix"), options) = <<>>

\* C22: with a limit of 1 or more, the scan of the sorted names in the
\* prefix tier and in the substring tier never gathers more than 3 x limit
\* candidates.
C22_OverCollectionBound ==
  (searched /\ LimitOf(options) >= 1) =>
    /\ ReachedPrefix => Len(ScanOf("prefix")) <= 3 * LimitOf(options)
    /\ ReachedSubstring => Len(ScanOf("substring")) <= 3 * LimitOf(options)

(***************************************************************************)
(* completeness under filters                                              *)
(***************************************************************************)
\* the symbols whose name contains the query, and those of them that
\* satisfy the filters
Containing == { i \in Idx : IsSubstring(symbols[i]) }
Eligible == { i \in Containing : Passes(symbols[i]) }

\* C24 as stated: with a limit of 1 or more, if a symbol whose name
\* contains the query case-insensitively satisfies all the filters, the
\* search returns a symbol.
C24_Original ==
  (searched /\ Limit >= 1 /\ Eligible # {}) => result # <<>>

\* C24: with a limit of 1 or more, if a symbol whose name contains the
\* query case-insensitively satisfies all the filters, and the index holds
\* at most 3 x limit symbols whose name contains the query (so that no scan
\* is cut short), the search returns a symbol.
C24_Completeness ==
  (searched /\ Limit >= 1 /\ Eligible # {} /\ Cardinality(Containing) <= 3 * Limit)
    => result # <<>>

\* three symbols contain the query, the only one the filter keeps is the
\* last the scans reach, and it is returned
C24_Witness ==
  /\ searched
  /\ Limit = 1
  /\ IsSome(options.exported)
  /\ Cardinality(Containing) = 3
  /\ Cardinality(Eligible) = 1
  /\ \A i \in Containing \ Eligible, j \in Eligible : StrLess(symbols[i].name, symbols[j].name)
  /\ Len(result) = 1

(***************************************************************************)
(* cache freshness                                                         *)
(***************************************************************************)
\* what extracting a file of the working tree yields now
ExtractNow(f) == IF Clean(working[f]) THEN Extract(f, working[f]) ELSE <<>>

\* C25: when buildIndex answers from the cache, the symbols it returns for
\* a file are those an extraction of the file as it is in the working tree
\* yields: a change of an indexed file between two builds changes the hash
\* and forces a rebuild.
C25_CacheIsFresh ==
  (Finished /\ UsedCache /\ IsSome(Returned)) =>
    \A f \in FilesOf(Get(Returned).symbols) :
      SymbolsOfFile(Get(Returned).symbols, f) = ExtractNow(f)

\* what extracting a file that holds a given content yields
ExtractOf(f, c) == IF Clean(c) THEN Extract(f, c) ELSE <<>>

\* a working wt that has the hash of a record and whose files yield the
\* symbols the record holds for them
StateOfRecord(rec, wt) ==
  /\ computeRepoHash(atCall.vcs, statusTooBig, wt) = rec.hash
  /\ \A f \in FilesOf(rec.symbols) :
       SymbolsOfFile(rec.symbols, f) = ExtractOf(f, wt[f])

\* C26: a cache record written under a hash holds, for every file it has
\* symbols of, what extracting a repository state with that hash yields,
\* also when the working wt is modified during the build.
C26_RecordMatchesHash ==
  (cacheWrite = "written" /\ IsSome(stored)) =>
    \E wt \in [CodeFiles -> Contents] : StateOfRecord(Get(stored), wt)

(***************************************************************************)
(* the life of a build                                                     *)
(***************************************************************************)
InFlight(id) == \E b \in builds : b.id = id
AwaitEnds == builds' # builds /\ builds' \subseteq builds

\* C27: every build a handler starts ends; when one ends the indexing flag
\* is cleared and an index or an error message is left; with no build in
\* flight the flag is clear, so that a reindex is accepted; a set flag is
\* cleared in the end.
C27_BuildsEnd ==
  /\ \A id \in 1..MaxBuilds : InFlight(id) ~> ~InFlight(id)
  /\ [][AwaitEnds => (~indexing' /\ (IsSome(index') \/ IsSome(indexError')))]_vars
  /\ [](builds = {} => ~indexing)
  /\ indexing ~> ~indexing

\* a build has thrown and its handler has ended
C27_Witness ==
  /\ started > 0
  /\ builds = {}
  /\ ended = "rejected"
  /\ IsSome(indexError)
  /\ ~indexing

(***************************************************************************)
(* progress                                                                *)
(***************************************************************************)
\* C28: in a full build the processed values reported to onProgress never
\* decrease and never exceed the total, and when the build has returned
\* every file of a recognised extension has been counted: processed
\* equals total.
C28_ProgressAccounting ==
  /\ \A i \in 1..Len(reports) :
       /\ reports[i].processed <= reports[i].total
       /\ i > 1 => reports[i - 1].processed <= reports[i].processed
  /\ (Finished /\ BuiltFresh) => processed = totalFiles

(***************************************************************************)
(* the counts of a map                                                     *)
(***************************************************************************)
AskedMap == IsSome(asked) /\ Get(asked).op = "map"
MapPrefix == PrefixOf(Get(asked).path)

\* the files a line of the map stands for
FilesOfLine(line) ==
  IF line.t = "dirline" THEN line.files
  ELSE IF line.t = "root" THEN line.count
  ELSE 0

RECURSIVE SumOfLines(_, _)
SumOfLines(lines, i) ==
  IF i > Len(lines) THEN 0 ELSE FilesOfLine(lines[i]) + SumOfLines(lines, i + 1)

\* the files of the index under the prefix of the call
FilesInScope ==
  { i \in 1..Len(lookups.byFile) : InScope(lookups.byFile[i][1], MapPrefix) }

\* C29: the file counts of the directory lines of a map and its count of
\* root-level files add up to the number of indexed files in scope: each
\* file is counted in one line.
C29_MapCountsEachFileOnce ==
  AskedMap => SumOfLines(text, 1) = Cardinality(FilesInScope)

====
